---- MODULE Spec2Model ----
(***************************************************************************)
(* Verification model of the optimizing Yul -> EVM backend:                *)
(*   libyul/backends/evm/StackHelpers.h         (stack shuffler)           *)
(*   libyul/DataFlowGraph.cpp                   (DFG builder)              *)
(*   libyul/backends/evm/StackLayoutGenerator.cpp                          *)
(*   libyul/backends/evm/OptimizedEVMCodeTransform.cpp                     *)
(* Stacks are sequences written bottom..top; offsets are 0-based as in the *)
(* C++ code, so offset i of a stack s is s[i + 1].                         *)
(***************************************************************************)
EXTENDS Integers, Sequences, FiniteSets, TLC

VARIABLES
    sh_init,    \* the shuffler's _currentStack as passed by the caller
    sh_cur,     \* _currentStack, mutated in place
    sh_tgt,     \* _targetStack
    sh_ops,     \* the callbacks issued so far, in order
    sh_rec,     \* whether the callbacks are recorded (the counting callers do not)
    sh_pc,      \* "call": a createStackLayout frame is about to run;
                \* "returned"; "assertFailed"; "idle"
    source,     \* the statements of the Block passed to build
    b_rest,     \* the statements of that block not visited yet
    bld,        \* the DataFlowGraphBuilder and the graph it builds
    dfg,        \* the DFG build returned
    b_pc,       \* "visit", "built", "failed"; "idle"
    m_layout,   \* the StackLayout the generator fills
    l_frames,   \* the activations of processEntryPoint, the innermost first
    l_roots,    \* the entry points the current loop of run has not finished
    l_pc,       \* "process", "stitch", "fix", "done", "failed"; "idle"
    gen,        \* the CodeGenerator and the assembly it appends to
    c_block,    \* the block operator()(BasicBlock) is about to be called with
    c_function, \* _functionInfo of the loop over m_stagedFunctions
    c_ret,      \* where the call of operator()(BasicBlock) returns to
    c_pc,       \* "block": that call is about to run; "stagedBlocks",
                \* "functionBlocks", "function", "functions": the position in
                \* generateStaged; "done", "failed"; "idle"
    p_exit,     \* _exitStack of a call of propagateStackThroughOperation
    p_op,       \* _operation of that call
    p_entry,    \* operationEntryLayout[&_operation] once the call recorded it
    p_stack,    \* the stack the call returned
    p_pc,       \* "call", "returned", "assertFailed"; "idle"
    t_stack,    \* m_stack when CodeGenerator::createStackLayout is called alone
    t_target,   \* _targetStack of that call
    t_pc        \* "call", "returned", "failed"; "idle"

shVars == <<sh_init, sh_cur, sh_tgt, sh_ops, sh_rec, sh_pc>>

bVars == <<source, b_rest, bld, dfg, b_pc>>

lVars == <<m_layout, l_frames, l_roots, l_pc>>

cVars == <<gen, c_block, c_function, c_ret, c_pc>>

pVars == <<p_exit, p_op, p_entry, p_stack, p_pc>>

tVars == <<t_stack, t_target, t_pc>>

vars == <<shVars, bVars, lVars, cVars, pVars, tVars>>

(***************************************************************************)
(* Stack slots (DataFlowGraph.h).  Every slot is a record of the same      *)
(* shape; equality of records is exactly the operator== of the variant:    *)
(* by call for labels, by variable, by value, by (call, idx), always equal *)
(* for the two singletons.                                                 *)
(***************************************************************************)
Slot(k, a, b) == [k |-> k, a |-> a, b |-> b]
FunctionCallReturnLabelSlot(call) == Slot("ret", call, 0)
FunctionReturnLabelSlot == Slot("fret", 0, 0)
VariableSlot(v) == Slot("var", v, 0)
LiteralSlot(value) == Slot("lit", value, 0)
TemporarySlot(call, idx) == Slot("tmp", call, idx)
JunkSlot == Slot("junk", 0, 0)

\* ------------------------------------------------------------ sequences
Last(s) == s[Len(s)]
Front(s) == SubSeq(s, 1, Len(s) - 1)
Reverse(s) == [i \in 1..Len(s) |-> s[Len(s) + 1 - i]]
Take(s, n) == SubSeq(s, 1, n)
Drop(s, n) == SubSeq(s, n + 1, Len(s))
TakeLast(s, n) == SubSeq(s, Len(s) - n + 1, Len(s))
DropLast(s, n) == SubSeq(s, 1, Len(s) - n)
Range(s) == {s[i] : i \in 1..Len(s)}
MinOf(S) == CHOOSE x \in S : \A y \in S : x <= y
MaxOf(S) == CHOOSE x \in S : \A y \in S : x >= y
SwapAt(s, i, j) == [s EXCEPT ![i + 1] = s[j + 1], ![j + 1] = s[i + 1]]

RECURSIVE SeqsUpTo(_, _)
SeqsUpTo(S, n) ==
    IF n = 0 THEN {<<>>}
    ELSE LET shorter == SeqsUpTo(S, n - 1)
         IN shorter \cup {Append(s, x) : s \in {t \in shorter : Len(t) = n - 1}, x \in S}

\* ------------------------------------------------- StackHelpers.h helpers
findAllOffsets(range, value) == {i \in 0..(Len(range) - 1) : range[i + 1] = value}

\* util::findOffset: the first offset of value, or -1 for std::nullopt.
findOffset(range, value) ==
    IF findAllOffsets(range, value) = {} THEN -1 ELSE MinOf(findAllOffsets(range, value))

\* ------------------------------------------------------------ callbacks
SwapOp(n) == [op |-> "swap", n |-> n, slot |-> JunkSlot]
DupOp(n) == [op |-> "dup", n |-> n, slot |-> JunkSlot]
PushOp(slot) == [op |-> "push", n |-> 0, slot |-> slot]
PopOp == [op |-> "pop", n |-> 0, slot |-> JunkSlot]

\* The outcome of one createStackLayout frame: what it issued, the stack it
\* leaves, and whether it returns, recurses or fails an assertion.
Frame(kind, ops, stack) == [kind |-> kind, ops |-> ops, stack |-> stack]

\* if (_currentStack.empty()): push the target's slots in order.
RECURSIVE pushAll(_, _)
pushAll(cur, tgt) ==
    IF Len(cur) < Len(tgt)
    THEN LET newSlot == tgt[Len(cur) + 1]
             rest == pushAll(Append(cur, newSlot), tgt)
         IN Frame(rest.kind, <<PushOp(newSlot)>> \o rest.ops, rest.stack)
    ELSE Frame(IF cur = tgt THEN "return" ELSE "assert", <<>>, cur)

\* The offsets of the slots of cur that occur less often in cur than in tgt.
dupOffsets(cur, tgt) ==
    {offset \in 0..(Len(cur) - 1) :
        Cardinality(findAllOffsets(cur, cur[offset + 1]))
            < Cardinality(findAllOffsets(tgt, cur[offset + 1]))}

dupDepthMissingPlusOne(cur, offset) == findOffset(Reverse(cur), cur[offset + 1])

\* leastDeepOccurrence + 1 of the slot at offset
dupDepth(cur, offset) == findOffset(Reverse(cur), cur[offset + 1]) + 1

dupFrame(cur, tgt) ==
    LET offset == MinOf(dupOffsets(cur, tgt))
    IN IF findOffset(Reverse(cur), cur[offset + 1]) = -1
       THEN Frame("assert", <<>>, cur)
       ELSE Frame("recurse", <<DupOp(dupDepth(cur, offset))>>, Append(cur, cur[offset + 1]))

\* The slots of tgt that are not in cur, by their first offset in tgt.
pushOffsets(cur, tgt) ==
    {i \in 0..(Len(tgt) - 1) : findOffset(cur, tgt[i + 1]) = -1}

pushFrame(cur, tgt) ==
    LET slot == tgt[MinOf(pushOffsets(cur, tgt)) + 1]
    IN Frame("recurse", <<PushOp(slot)>>, Append(cur, slot))

swapStackUnchanged(cur, offset) == cur

\* std::swap(_currentStack.back(), _currentStack.at(offset))
swapStack(cur, offset) == SwapAt(cur, Len(cur) - 1, offset)

swapFrame(cur, offset) ==
    Frame("recurse", <<SwapOp(Len(cur) - offset - 1)>>, swapStack(cur, offset))

\* "Swap the deepest one that's not in place up."
swapUpOffsets(cur, tgt) ==
    {offset \in 0..(Len(cur) - 1) :
        cur[offset + 1] # tgt[offset + 1] /\ cur[offset + 1] # Last(cur)}

\* "Move top into place": the target offsets of the top, in increasing order,
\* up to the first one that is not below the current size.
moveOffsets(cur, tgt) ==
    {d \in findAllOffsets(tgt, Last(cur)) :
        /\ \A e \in findAllOffsets(tgt, Last(cur)) : e <= d => e < Len(cur)
        /\ cur[d + 1] # tgt[d + 1]}

\* no return on equal stacks, and the top is popped unless the target has
\* more copies of it than the stack
createStackLayoutFrameRefreshing(cur, tgt) ==
    IF cur = <<>> THEN pushAll(cur, tgt)
    ELSE IF Cardinality(findAllOffsets(tgt, Last(cur)))
                <= Cardinality(findAllOffsets(cur, Last(cur)))
    THEN Frame("recurse", <<PopOp>>, Front(cur))
    ELSE IF dupOffsets(cur, tgt) # {} THEN dupFrame(cur, tgt)
    ELSE IF pushOffsets(cur, tgt) # {} THEN pushFrame(cur, tgt)
    ELSE Frame("assert", <<>>, cur)

createStackLayoutFrame(cur, tgt) ==
    IF cur = tgt THEN Frame("return", <<>>, cur)
    ELSE IF cur = <<>> THEN pushAll(cur, tgt)
    ELSE IF Cardinality(findAllOffsets(tgt, Last(cur)))
                < Cardinality(findAllOffsets(cur, Last(cur)))
    THEN Frame("recurse", <<PopOp>>, Front(cur))
    ELSE IF Len(tgt) >= Len(cur) /\ tgt[Len(cur)] = Last(cur)
    THEN \* Current top is in place.
         IF dupOffsets(cur, tgt) # {} THEN dupFrame(cur, tgt)
         ELSE IF pushOffsets(cur, tgt) # {} THEN pushFrame(cur, tgt)
         ELSE IF swapUpOffsets(cur, tgt) # {}
         THEN swapFrame(cur, MinOf(swapUpOffsets(cur, tgt)))
         ELSE Frame(IF cur = tgt THEN "return" ELSE "assert", <<>>, cur)
    ELSE \* Top is not in place.
         IF moveOffsets(cur, tgt) # {}
         THEN swapFrame(cur, MinOf(moveOffsets(cur, tgt)))
         ELSE IF dupOffsets(cur, tgt) # {} THEN dupFrame(cur, tgt)
         ELSE IF pushOffsets(cur, tgt) # {} THEN pushFrame(cur, tgt)
         ELSE Frame("assert", <<>>, cur)

\* The whole recursion, for the callers that need its result as a value.
RECURSIVE createStackLayout(_, _)
createStackLayout(cur, tgt) ==
    LET f == createStackLayoutFrame(cur, tgt)
    IN IF f.kind = "recurse"
       THEN LET rest == createStackLayout(f.stack, tgt)
            IN Frame(rest.kind, f.ops \o rest.ops, rest.stack)
       ELSE f

(***************************************************************************)
(* The Yul AST the builder consumes (libyul/AST.h), after analysis: every  *)
(* variable and every function has one name, and a name is the identity of *)
(* the Scope::Variable / Scope::Function it resolves to.  A call node is   *)
(* identified by its id (its address in the C++ code).                     *)
(***************************************************************************)
Literal(value) == [t |-> "Literal", value |-> value]
Identifier(name) == [t |-> "Identifier", name |-> name]
FunctionCall(id, functionName, arguments) ==
    [t |-> "FunctionCall", id |-> id, functionName |-> functionName, arguments |-> arguments]
ExpressionStatement(expression) == [t |-> "ExpressionStatement", expression |-> expression]
VariableDeclaration(variables, value) ==
    [t |-> "VariableDeclaration", variables |-> variables, hasValue |-> TRUE, value |-> value]
VariableDeclarationNoValue(variables) ==
    [t |-> "VariableDeclaration", variables |-> variables, hasValue |-> FALSE, value |-> Literal(0)]
Assignment(variableNames, value) ==
    [t |-> "Assignment", variableNames |-> variableNames, value |-> value]
If(condition, body) == [t |-> "If", condition |-> condition, body |-> body]
Case(value, body) == [hasValue |-> TRUE, value |-> value, body |-> body]
DefaultCase(body) == [hasValue |-> FALSE, value |-> 0, body |-> body]
Switch(expression, cases) == [t |-> "Switch", expression |-> expression, cases |-> cases]
ForLoop(pre, condition, post, body) ==
    [t |-> "ForLoop", pre |-> pre, condition |-> condition, post |-> post, body |-> body]
Break == [t |-> "Break"]
Continue == [t |-> "Continue"]
Leave == [t |-> "Leave"]
FunctionDefinition(name, parameters, returnVariables, body) ==
    [t |-> "FunctionDefinition", name |-> name, parameters |-> parameters,
     returnVariables |-> returnVariables, body |-> body]
Block(statements) == [t |-> "Block", statements |-> statements]

(***************************************************************************)
(* The dialect the builder queries (EVMDialect): per builtin its number of *)
(* arguments and returns, the indices of its literal arguments and whether *)
(* it always terminates.                                                   *)
(***************************************************************************)
Builtin(arguments, returns, literalArguments, terminates) ==
    [arguments |-> arguments, returns |-> returns,
     literalArguments |-> literalArguments, terminates |-> terminates]

Dialect ==
    [add |-> Builtin(2, 1, {}, FALSE),
     lt |-> Builtin(2, 1, {}, FALSE),
     eq |-> Builtin(2, 1, {}, FALSE),
     calldataload |-> Builtin(1, 1, {}, FALSE),
     sstore |-> Builtin(2, 0, {}, FALSE),
     pop |-> Builtin(1, 0, {}, FALSE),
     loadimmutable |-> Builtin(1, 1, {0}, FALSE),
     setimmutable |-> Builtin(3, 0, {1}, FALSE),
     revert |-> Builtin(2, 0, {}, TRUE),
     stop |-> Builtin(0, 0, {}, TRUE)]

isBuiltin(name) == name \in DOMAIN Dialect

(***************************************************************************)
(* The DFG (DataFlowGraph.h).  Blocks are identified by their index in     *)
(* DFG::blocks (1-based; 0 is nullptr), an operation by its block and its  *)
(* index in the block.                                                     *)
(***************************************************************************)
Exit(t, target, backwards, condition, nonZero, zero, info) ==
    [t |-> t, target |-> target, backwards |-> backwards, condition |-> condition,
     nonZero |-> nonZero, zero |-> zero, info |-> info]
MainExit == Exit("MainExit", 0, FALSE, JunkSlot, 0, 0, "")
Jump(target, backwards) == Exit("Jump", target, backwards, JunkSlot, 0, 0, "")
ConditionalJump(condition, nonZero, zero) ==
    Exit("ConditionalJump", 0, FALSE, condition, nonZero, zero, "")
FunctionReturn(info) == Exit("FunctionReturn", 0, FALSE, JunkSlot, 0, 0, info)
Terminated == Exit("Terminated", 0, FALSE, JunkSlot, 0, 0, "")

BasicBlock == [entries |-> <<>>, operations |-> <<>>, exit |-> MainExit]

\* DFG::Operation; functionName and call stand for the callee and the
\* yul::FunctionCall node, variables for Assignment::variables.
Operation(input, output, kind, functionName, call, arguments, variables) ==
    [input |-> input, output |-> output, kind |-> kind, functionName |-> functionName,
     call |-> call, arguments |-> arguments, variables |-> variables]

FunctionInfo(name, entry, parameters, returnVariables) ==
    [name |-> name, entry |-> entry, parameters |-> parameters,
     returnVariables |-> returnVariables]

NoForLoopInfo == [has |-> FALSE, afterLoop |-> 0, post |-> 0]
ForLoopInfo(afterLoop, post) == [has |-> TRUE, afterLoop |-> afterLoop, post |-> post]

\* The graph under construction together with the builder's members.
\* functionDecls maps the names of the user functions in scope to their
\* numbers of arguments and returns (Scope::Function).
NewBuilder(functionDecls) ==
    [blocks |-> <<BasicBlock>>,
     entry |-> 1,
     functions |-> <<>>,
     ghostVariables |-> 0,
     ghostCalls |-> <<>>,
     functionDecls |-> functionDecls,
     m_currentBlock |-> 1,
     m_forLoopInfo |-> NoForLoopInfo,
     m_currentFunctionExit |-> 0,
     failed |-> FALSE]

\* yulAssert: a failed assertion throws and ends the build.
yulAssert(g, condition) == IF condition THEN g ELSE [g EXCEPT !.failed = TRUE]

makeBlock(g) == [g EXCEPT !.blocks = Append(@, BasicBlock)]
lastBlock(g) == Len(g.blocks)

appendOperation(g, operation) ==
    IF g.failed \/ g.m_currentBlock = 0 THEN [g EXCEPT !.failed = TRUE]
    ELSE [g EXCEPT !.blocks[g.m_currentBlock].operations = Append(@, operation)]

\* DataFlowGraphBuilder::lookupVariable: the variable the name resolves to.
lookupVariable(name) == name

\* The ghost variables and ghost calls of a switch get identities of their
\* own, distinct from those of the source.
ghostVariable(ghostVariableId) == 0 - (ghostVariableId + 1)
ghostCallId(index) == 0 - index

\* ----------------------------------------------- DataFlowGraphBuilder
\* Binds val to the parameter of F: the value of a sub-expression that the
\* C++ code keeps in a local variable.
Let(val, F(_)) == F(val)

setCurrentBlock(g, block) == IF g.failed THEN g ELSE [g EXCEPT !.m_currentBlock = block]

\* m_currentBlock = &m_graph.makeBlock()
startBlock(g) ==
    IF g.failed THEN g
    ELSE [g EXCEPT !.blocks = Append(@, BasicBlock), !.m_currentBlock = Len(g.blocks) + 1]

\* the arguments in source order
reverseArgumentsInSourceOrder(n, skip) ==
    SelectSeq([i \in 1..n |-> i - 1], LAMBDA idx : idx \notin skip)

reverseArgumentsUnfiltered(n, skip) == [i \in 1..n |-> n - i]

\* The argument indices a call visits, last argument first, without skip.
reverseArguments(n, skip) ==
    SelectSeq([i \in 1..n |-> n - i], LAMBDA idx : idx \notin skip)

\* The arguments a builtin call passes on the stack, in visiting order.
builtinArgumentOrder(call) ==
    reverseArguments(Len(call.arguments), Dialect[call.functionName].literalArguments)

\* The arguments a user function call passes on the stack, in visiting order.
functionArgumentOrder(call) == reverseArguments(Len(call.arguments), {})

temporarySlots(call, n) == [i \in 1..n |-> TemporarySlot(call.id, i - 1)]

functionCallInputNoLabel(call, arguments) == arguments

\* concat(single(FunctionCallReturnLabelSlot{_call}), reversed arguments)
functionCallInput(call, arguments) == <<FunctionCallReturnLabelSlot(call.id)>> \o arguments

builtinCallOperation(call, input) ==
    Operation(input, temporarySlots(call, Dialect[call.functionName].returns),
              "BuiltinCall", call.functionName, call, Len(input), <<>>)

functionCallOperation(call, arguments, function) ==
    Operation(functionCallInput(call, arguments), temporarySlots(call, function.returns),
              "FunctionCall", call.functionName, call, 0, <<>>)

assignmentOperation(input, variables) ==
    Operation(input, variables, "Assignment", "", Literal(0), 0, variables)

\* m_currentBlock->operations.emplace_back(...), returning the operation too
emplaceOperation(g, operation) ==
    [g |-> appendOperation(g, operation), operation |-> operation]

\* m_scope->lookup of a function name; an unknown name fails the assertion.
lookupFunction(g, name) ==
    IF name \in DOMAIN g.functionDecls THEN g.functionDecls[name]
    ELSE [arguments |-> 0, returns |-> 0]

RECURSIVE visitExpression(_, _)
RECURSIVE visitArguments(_, _, _)
RECURSIVE visitFunctionCall(_, _)

\* Visits the arguments at the indices of order, in that order; the slots
\* they yield, first visited at the bottom.
visitArguments(g, arguments, order) ==
    IF order = <<>> THEN [g |-> g, stack |-> <<>>]
    ELSE Let(visitExpression(g, arguments[Head(order) + 1]), LAMBDA first :
         Let(visitArguments(first.g, arguments, Tail(order)), LAMBDA rest :
             [g |-> rest.g, stack |-> <<first.slot>> \o rest.stack]))

\* Appends the operation of the call to the current block and returns it.
visitFunctionCall(g, call) ==
    IF isBuiltin(call.functionName)
    THEN Let(visitArguments(g, call.arguments, builtinArgumentOrder(call)), LAMBDA in :
             emplaceOperation(in.g, builtinCallOperation(call, in.stack)))
    ELSE Let(visitArguments(yulAssert(g, call.functionName \in DOMAIN g.functionDecls),
                            call.arguments, functionArgumentOrder(call)), LAMBDA in :
             emplaceOperation(in.g, functionCallOperation(call, in.stack,
                                        lookupFunction(g, call.functionName))))

\* operator()(FunctionCall): the single output of the call's operation.
singleOutput(r) ==
    IF Len(r.operation.output) = 1
    THEN [g |-> r.g, slot |-> r.operation.output[1]]
    ELSE [g |-> yulAssert(r.g, FALSE), slot |-> JunkSlot]

visitExpression(g, expression) ==
    CASE expression.t = "Literal" -> [g |-> g, slot |-> LiteralSlot(expression.value)]
      [] expression.t = "Identifier" ->
            [g |-> g, slot |-> VariableSlot(lookupVariable(expression.name))]
      [] OTHER -> singleOutput(visitFunctionCall(g, expression))

variableSlots(names) == [i \in 1..Len(names) |-> VariableSlot(lookupVariable(names[i]))]

outputOfCall(r, n) ==
    [g |-> yulAssert(r.g, n = Len(r.operation.output)), stack |-> r.operation.output]

outputOfIdentifierOrLiteral(r, n) == [g |-> yulAssert(r.g, n = 1), stack |-> <<r.slot>>]

\* The right-hand side of a declaration or an assignment of n variables.
visitValue(g, value, n) ==
    IF value.t = "FunctionCall"
    THEN outputOfCall(visitFunctionCall(g, value), n)
    ELSE outputOfIdentifierOrLiteral(visitExpression(g, value), n)

zeroLiterals(n) == [i \in 1..n |-> LiteralSlot(0)]

emplaceAssignment(in, variables) == appendOperation(in.g, assignmentOperation(in.stack, variables))

visitVariableDeclaration(g, varDecl) ==
    IF varDecl.hasValue
    THEN emplaceAssignment(visitValue(g, varDecl.value, Len(varDecl.variables)),
                variableSlots(varDecl.variables))
    ELSE emplaceAssignment([g |-> g, stack |-> zeroLiterals(Len(varDecl.variables))],
                variableSlots(varDecl.variables))

visitAssignment(g, assignment) ==
    emplaceAssignment(visitValue(g, assignment.value, Len(assignment.variableNames)),
           variableSlots(assignment.variableNames))

setExit(g, exit) == IF g.failed THEN g ELSE [g EXCEPT !.blocks[g.m_currentBlock].exit = exit]

\* the exit is set but lowering goes on in the same block
endIfTerminatesInPlace(g, functionName) ==
    IF isBuiltin(functionName) /\ Dialect[functionName].terminates
    THEN setExit(g, Terminated)
    ELSE g

\* the tail of operator()(ExpressionStatement): a terminating builtin ends
\* the block
endIfTerminates(g, functionName) ==
    IF isBuiltin(functionName) /\ Dialect[functionName].terminates
    THEN startBlock(setExit(g, Terminated))
    ELSE g

noOutput(r) == yulAssert(r.g, r.operation.output = <<>>)

visitExpressionStatement(g, exprStmt) ==
    IF exprStmt.expression.t # "FunctionCall" THEN yulAssert(g, FALSE)
    ELSE endIfTerminates(noOutput(visitFunctionCall(g, exprStmt.expression)),
                         exprStmt.expression.functionName)

\* makeConditionalJump(_condition, _nonZero, _zero)
makeConditionalJump(g, condition, nonZero, zero) ==
    IF g.failed \/ g.m_currentBlock = 0 THEN yulAssert(g, FALSE)
    ELSE [g EXCEPT
            !.blocks[g.m_currentBlock].exit = ConditionalJump(condition, nonZero, zero),
            !.blocks[nonZero].entries = Append(@, g.m_currentBlock),
            !.blocks[zero].entries = Append(@, g.m_currentBlock),
            !.m_currentBlock = 0]

\* DataFlowGraphBuilder::jump
\* backwards is set whatever the caller passes
jumpBackwards(g, target, backwards) ==
    IF g.failed \/ g.m_currentBlock = 0 THEN yulAssert(g, FALSE)
    ELSE [g EXCEPT
            !.blocks[g.m_currentBlock].exit = Jump(target, TRUE),
            !.blocks[target].entries = Append(@, g.m_currentBlock),
            !.m_currentBlock = target]

jump(g, target, backwards) ==
    IF g.failed \/ g.m_currentBlock = 0 THEN yulAssert(g, FALSE)
    ELSE [g EXCEPT
            !.blocks[g.m_currentBlock].exit = Jump(target, backwards),
            !.blocks[target].entries = Append(@, g.m_currentBlock),
            !.m_currentBlock = target]

RECURSIVE visitStatement(_, _)
RECURSIVE visitStatements(_, _)
RECURSIVE visitCases(_, _, _, _)

\* operator()(Block const&): the statements in order.
visitStatements(g, statements) ==
    IF statements = <<>> \/ g.failed THEN g
    ELSE visitStatements(visitStatement(g, Head(statements)), Tail(statements))

\* makeConditionalJump(_condition): two new blocks, nonZero before zero; then
\* body is visited in nonZero and control joins in zero.
branch(g, condition, body) ==
    LET nonZero == lastBlock(g) + 1
        zero == lastBlock(g) + 2
    IN jump(visitStatements(
                setCurrentBlock(
                    makeConditionalJump(makeBlock(makeBlock(g)), condition, nonZero, zero),
                    nonZero),
                body),
            zero, FALSE)

visitIf(g, if) ==
    Let(visitExpression(g, if.condition), LAMBDA c : branch(c.g, c.slot, if.body))

\* The ghost call eq(<literal>, <ghostVariable>), kept in DFG::ghostCalls.
ghostCall(g, ghostVar, value) ==
    FunctionCall(ghostCallId(Len(g.ghostCalls) + 1), "eq",
                 <<Literal(value), Identifier(ghostVar)>>)

ghostCallOperation(call, ghostVar, value) ==
    Operation(<<VariableSlot(ghostVar), LiteralSlot(value)>>,
              <<TemporarySlot(call.id, 0)>>,
              "BuiltinCall", "eq", call, 2, <<>>)

\* makeValueCompare: records the ghost call and appends its operation.
makeValueCompare(g, ghostVar, value) ==
    IF g.failed THEN g
    ELSE appendOperation(
            [g EXCEPT !.ghostCalls = Append(@, ghostCall(g, ghostVar, value))],
            ghostCallOperation(ghostCall(g, ghostVar, value), ghostVar, value))

\* the output of the operation makeValueCompare has just appended
lastOutput(g) == Last(g.blocks[g.m_currentBlock].operations).output[1]

\* the body is lowered into the zero successor of the comparison
visitCaseSwapped(g, switchCase, afterSwitch) ==
    LET caseBranch == lastBlock(g) + 1
        elseBranch == lastBlock(g) + 2
    IN setCurrentBlock(
           jump(visitStatements(
                    setCurrentBlock(
                        makeConditionalJump(makeBlock(makeBlock(g)), lastOutput(g),
                                            elseBranch, caseBranch),
                        caseBranch),
                    switchCase.body),
                afterSwitch, FALSE),
           elseBranch)

\* One case that is not the last: compare, branch, jump to afterSwitch from
\* the case's body and go on in the else branch.
visitCase(g, switchCase, afterSwitch) ==
    LET caseBranch == lastBlock(g) + 1
        elseBranch == lastBlock(g) + 2
    IN setCurrentBlock(
           jump(visitStatements(
                    setCurrentBlock(
                        makeConditionalJump(makeBlock(makeBlock(g)), lastOutput(g),
                                            caseBranch, elseBranch),
                        caseBranch),
                    switchCase.body),
                afterSwitch, FALSE),
           elseBranch)

\* All cases of a switch but the last one.
visitCases(g, ghostVar, cases, afterSwitch) ==
    IF cases = <<>> \/ g.failed THEN g
    ELSE visitCases(
            Let(makeValueCompare(yulAssert(g, Head(cases).hasValue), ghostVar, Head(cases).value),
                LAMBDA c : IF c.failed THEN c ELSE visitCase(c, Head(cases), afterSwitch)),
            ghostVar, Tail(cases), afterSwitch)

\* The last case with a value: its else branch is afterSwitch itself.
visitLastCase(g, switchCase, afterSwitch) ==
    IF g.failed THEN g
    ELSE visitStatements(
            setCurrentBlock(
                makeConditionalJump(makeBlock(g), lastOutput(g), lastBlock(g) + 1, afterSwitch),
                lastBlock(g) + 1),
            switchCase.body)

visitDefaultOrLastCase(g, ghostVar, switchCase, afterSwitch) ==
    IF switchCase.hasValue
    THEN visitLastCase(makeValueCompare(g, ghostVar, switchCase.value), switchCase, afterSwitch)
    ELSE visitStatements(g, switchCase.body)

\* let <ghostVariable> := <switchExpression>
ghostAssignment(e, ghostVar) ==
    appendOperation(e.g, assignmentOperation(<<e.slot>>, <<VariableSlot(ghostVar)>>))

visitSwitch(g, switch) ==
    LET ghostVar == ghostVariable(g.ghostVariables)
    IN Let(makeBlock(ghostAssignment(
               visitExpression([g EXCEPT !.ghostVariables = @ + 1], switch.expression),
               ghostVar)),
           LAMBDA g2 :
               jump(visitDefaultOrLastCase(
                        visitCases(g2, ghostVar, Front(switch.cases), lastBlock(g2)),
                        ghostVar, Last(switch.cases), lastBlock(g2)),
                    lastBlock(g2), FALSE))

\* jump(post); (*this)(_loop.post); jump(<loop header>, true)
closeLoop(g, loop, post, header) ==
    jump(visitStatements(jump(g, post, FALSE), loop.post), header, TRUE)

\* The loop after the four blocks were made and m_forLoopInfo was set.
visitLoop(g, loop, loopCondition, loopBody, post, afterLoop) ==
    IF loop.condition.t = "Literal"
    THEN IF loop.condition.value # 0
         THEN closeLoop(visitStatements(jump(g, loopBody, FALSE), loop.body),
                        loop, post, loopBody)
         ELSE jump(g, afterLoop, FALSE)
    ELSE Let(visitExpression(jump(g, loopCondition, FALSE), loop.condition), LAMBDA c :
             closeLoop(visitStatements(
                           setCurrentBlock(
                               makeConditionalJump(c.g, c.slot, loopBody, afterLoop),
                               loopBody),
                           loop.body),
                       loop, post, loopCondition))

setForLoopInfo(g, info) == IF g.failed THEN g ELSE [g EXCEPT !.m_forLoopInfo = info]

\* the loop info of the enclosing loop is not restored after the loop
visitForLoopKeepingInfo(g, loop) ==
    Let(makeBlock(makeBlock(makeBlock(makeBlock(visitStatements(g, loop.pre))))), LAMBDA g1 :
        LET afterLoop == lastBlock(g1)
        IN setCurrentBlock(
               visitLoop(setForLoopInfo(g1, ForLoopInfo(afterLoop, afterLoop - 1)),
                         loop, afterLoop - 3, afterLoop - 2, afterLoop - 1, afterLoop),
               afterLoop))

visitForLoop(g, loop) ==
    Let(makeBlock(makeBlock(makeBlock(makeBlock(visitStatements(g, loop.pre))))), LAMBDA g1 :
        LET afterLoop == lastBlock(g1)
        IN setForLoopInfo(
               setCurrentBlock(
                   visitLoop(setForLoopInfo(g1, ForLoopInfo(afterLoop, afterLoop - 1)),
                             loop, afterLoop - 3, afterLoop - 2, afterLoop - 1, afterLoop),
                   afterLoop),
               g.m_forLoopInfo))

\* Break, Continue and Leave: jump, then go on in a fresh block.
jumpAndStartBlock(g, known, target) == startBlock(jump(yulAssert(g, known), target, FALSE))

\* The builder of a function's body: a fresh DataFlowGraphBuilder on the same
\* graph, with the new blocks entry and exit.
functionBuilder(g, function) ==
    LET entry == lastBlock(g) + 1
        exit == lastBlock(g) + 2
    IN [g EXCEPT
          !.blocks = @ \o <<BasicBlock, [BasicBlock EXCEPT !.exit = FunctionReturn(function.name)]>>,
          !.functions = Append(@, FunctionInfo(function.name, entry,
                                   variableSlots(function.parameters),
                                   variableSlots(function.returnVariables))),
          !.m_currentBlock = entry,
          !.m_forLoopInfo = NoForLoopInfo,
          !.m_currentFunctionExit = exit]

\* back in the builder that visited the definition
leaveFunctionBuilder(done, g) ==
    IF done.failed THEN done
    ELSE [done EXCEPT
            !.m_currentBlock = g.m_currentBlock,
            !.m_forLoopInfo = g.m_forLoopInfo,
            !.m_currentFunctionExit = g.m_currentFunctionExit]

visitFunctionDefinition(g, function) ==
    IF function.name \notin DOMAIN g.functionDecls THEN yulAssert(g, FALSE)
    ELSE leaveFunctionBuilder(
            jump(visitStatements(functionBuilder(g, function), function.body),
                 lastBlock(g) + 2, FALSE),
            g)

\* std::visit(*this, statement)
visitStatement(g, statement) ==
    IF g.failed THEN g
    ELSE CASE statement.t = "ExpressionStatement" -> visitExpressionStatement(g, statement)
           [] statement.t = "VariableDeclaration" -> visitVariableDeclaration(g, statement)
           [] statement.t = "Assignment" -> visitAssignment(g, statement)
           [] statement.t = "If" -> visitIf(g, statement)
           [] statement.t = "Switch" -> visitSwitch(g, statement)
           [] statement.t = "ForLoop" -> visitForLoop(g, statement)
           [] statement.t = "Break" ->
                jumpAndStartBlock(g, g.m_forLoopInfo.has, g.m_forLoopInfo.afterLoop)
           [] statement.t = "Continue" ->
                jumpAndStartBlock(g, g.m_forLoopInfo.has, g.m_forLoopInfo.post)
           [] statement.t = "Leave" ->
                jumpAndStartBlock(g, g.m_currentFunctionExit # 0, g.m_currentFunctionExit)
           [] statement.t = "FunctionDefinition" -> visitFunctionDefinition(g, statement)
           [] OTHER -> visitStatements(g, statement.statements)

\* ---------------------------------------- DataFlowGraphBuilder::build, the end
successors(exit) ==
    CASE exit.t = "Jump" -> {exit.target}
      [] exit.t = "ConditionalJump" -> {exit.zero, exit.nonZero}
      [] OTHER -> {}

\* util::BreadthFirstSearch::run: everything reachable from the roots.
RECURSIVE reachableFrom(_, _, _)
reachableFrom(blocks, visited, frontier) ==
    IF frontier = {} THEN visited
    ELSE LET next == UNION {successors(blocks[b].exit) : b \in frontier}
         IN reachableFrom(blocks, visited \cup frontier, next \ (visited \cup frontier))

\* the program entry and every function entry
roots(g) == {g.entry} \cup {g.functions[i].entry : i \in 1..Len(g.functions)}

reachabilityCheck(g) == reachableFrom(g.blocks, {}, roots(g))

pruneNothing(g, visited) == g.blocks

\* "Remove all entries from unreachable nodes from the graph."
pruneEntries(g, visited) ==
    [b \in 1..Len(g.blocks) |->
        IF b \in visited
        THEN [g.blocks[b] EXCEPT !.entries = SelectSeq(@, LAMBDA entry : entry \in visited)]
        ELSE g.blocks[b]]

\* The graph build hands out: the builder's graph with the pruned blocks.
DFG(g, blocks) ==
    [blocks |-> blocks, entry |-> g.entry, functions |-> g.functions,
     ghostVariables |-> g.ghostVariables, ghostCalls |-> g.ghostCalls,
     functionDecls |-> g.functionDecls]

\* Scope::Function of every function the block defines: the analysis has
\* registered them before the builder runs, so calls may precede definitions.
RECURSIVE definitionsIn(_)
definitionsIn(statements) ==
    IF statements = <<>> THEN {}
    ELSE LET statement == Head(statements)
             inner == CASE statement.t = "FunctionDefinition" ->
                              {statement} \cup definitionsIn(statement.body)
                        [] statement.t = "If" -> definitionsIn(statement.body)
                        [] statement.t = "ForLoop" ->
                              definitionsIn(statement.pre) \cup definitionsIn(statement.body)
                                  \cup definitionsIn(statement.post)
                        [] statement.t = "Switch" ->
                              UNION {definitionsIn(statement.cases[i].body) :
                                         i \in DOMAIN statement.cases}
                        [] statement.t = "Block" -> definitionsIn(statement.statements)
                        [] OTHER -> {}
         IN inner \cup definitionsIn(Tail(statements))

functionDeclsOf(statements) ==
    LET defs == definitionsIn(statements)
    IN [name \in {d.name : d \in defs} |->
            LET d == CHOOSE d \in defs : d.name = name
            IN [arguments |-> Len(d.parameters), returns |-> Len(d.returnVariables)]]

\* -------------------------------------------------- StackLayoutGenerator
\* An element of createIdealLayout's symbolic layout: PreviousSlot{slot}, or
\* the set of the positions a value the operation produces has to reach.
PreviousSlot(slot) == [prev |-> TRUE, slot |-> slot, positions |-> {}]
TargetPositions(positions) == [prev |-> FALSE, slot |-> 0, positions |-> positions]

\* _getTargetPosition of createIdealLayout: a previous slot can stay where
\* it is.
getTargetPositions(layout, i) ==
    IF layout[i + 1].prev THEN {i} ELSE layout[i + 1].positions

Permuted(layout, ok) == [layout |-> layout, ok |-> ok]

\* the swap callback of createIdealLayout
idealSwap(layout, i) == SwapAt(layout, Len(layout) - 1, Len(layout) - i - 1)

\* the dup callback of createIdealLayout
idealDup(layout, i) ==
    LET size == Len(layout)
        own == size - i
        positions == layout[own + 1].positions
    IN IF layout[own + 1].prev THEN Permuted(layout, FALSE)
       ELSE IF size \in positions
       THEN Permuted(Append([layout EXCEPT ![own + 1].positions = @ \ {size}],
                            TargetPositions({size})), TRUE)
       ELSE IF positions \ {own} = {} THEN Permuted(layout, FALSE)
       ELSE Permuted(Append([layout EXCEPT ![own + 1].positions = @ \ {MinOf(positions \ {own})}],
                            TargetPositions({MinOf(positions \ {own})})), TRUE)

outOfPlace(layout, n) ==
    {i \in 0..(n - 2) : i \notin getTargetPositions(layout, i)}
toDup(layout, n) ==
    {i \in 0..(n - 1) : Cardinality(getTargetPositions(layout, i)) > 1}
reachableTargets(layout, n) ==
    {p \in getTargetPositions(layout, n - 1) : p < n - 1}

\* util::permuteDup driving the callbacks of createIdealLayout on the n
\* elements of layout: pops a top without target, swaps the top to a target
\* of its own, swaps the deepest element out of place up, dups the deepest
\* element wanted more than once; the push callback fails the assertion.
RECURSIVE permuteDup(_, _)
permuteDup(n, layout) ==
    IF n = 0 THEN Permuted(layout, TRUE)
    ELSE IF getTargetPositions(layout, n - 1) = {}
    THEN permuteDup(n - 1, Front(layout))
    ELSE IF (n - 1) \notin getTargetPositions(layout, n - 1) /\ reachableTargets(layout, n) # {}
    THEN permuteDup(n, idealSwap(layout, n - MinOf(reachableTargets(layout, n)) - 1))
    ELSE IF (n - 1) \in getTargetPositions(layout, n - 1) /\ outOfPlace(layout, n) # {}
    THEN permuteDup(n, idealSwap(layout, n - MinOf(outOfPlace(layout, n)) - 1))
    ELSE IF toDup(layout, n) # {}
    THEN Let(idealDup(layout, n - MinOf(toDup(layout, n))), LAMBDA d :
             IF d.ok THEN permuteDup(n + 1, d.layout) ELSE d)
    ELSE Permuted(layout, (n - 1) \in getTargetPositions(layout, n - 1))

\* idealLayout.at(previousSlot->slot) = slot over zip(post, layout); the
\* positions no previous slot went to stay nullopt.
idealPositions(post, layout) ==
    [x \in 0..(Len(post) - 1) |->
        {j \in 1..MinOf({Len(post), Len(layout)}) : layout[j].prev /\ layout[j].slot = x}]

\* the symbolic layout is read without having been permuted
createIdealLayoutUnpermuted(post, layout) ==
    LET at == idealPositions(post, layout)
        filled == {x \in DOMAIN at : at[x] # {}}
        size == IF filled = {} THEN 0 ELSE MaxOf(filled) + 1
    IN [stack |-> [i \in 1..size |->
                      IF at[i - 1] = {} THEN JunkSlot ELSE post[MaxOf(at[i - 1])]],
        ok |-> \A x \in 0..(size - 1) : at[x] # {}]

createIdealLayout(post, layout) ==
    Let(permuteDup(Len(layout), layout), LAMBDA p :
        LET at == idealPositions(post, p.layout)
            filled == {x \in DOMAIN at : at[x] # {}}
            size == IF filled = {} THEN 0 ELSE MaxOf(filled) + 1
        IN [stack |-> [i \in 1..size |->
                          IF at[i - 1] = {} THEN JunkSlot ELSE post[MaxOf(at[i - 1])]],
            ok |-> p.ok /\ \A x \in 0..(size - 1) : at[x] # {}])

RECURSIVE countOffsets(_, _)
countOffsets(stack, output) ==
    IF output = <<>> THEN 0
    ELSE Cardinality(findAllOffsets(stack, Head(output))) + countOffsets(stack, Tail(output))

\* layout of propagateStackThroughOperation: the previous slots below the
\* target positions of the outputs
symbolicLayout(stack, output) ==
    [i \in 1..MaxOf({0, Len(stack) - countOffsets(stack, output)}) |-> PreviousSlot(i - 1)]
    \o [idx \in 1..Len(output) |-> TargetPositions(findAllOffsets(stack, output[idx]))]

\* an assignment turns the assigned variables into junk
junkify(stack, operation) ==
    IF operation.kind # "Assignment" THEN stack
    ELSE [i \in 1..Len(stack) |->
            IF stack[i].k = "var" /\ findOffset(operation.variables, stack[i]) >= 0
            THEN JunkSlot ELSE stack[i]]

canAlwaysPush(slot) == slot.k \in {"lit", "junk", "ret"}

\* The loop over stack | enumerate | reverse that pops what can be pushed or
\* dupped: it starts at the top and stops at the first slot it keeps, so it
\* pops from the top.  pop_back() invalidates the iterator the traversal
\* holds ("TODO: verify that this is fine during range traversal"): see
\* ProcessBlock for the outcomes.
\* only what can be pushed is popped, not what can be dupped
RECURSIVE compressKeepingCopies(_)
compressKeepingCopies(stack) ==
    IF stack = <<>> THEN stack
    ELSE IF canAlwaysPush(Last(stack)) THEN compressKeepingCopies(Front(stack))
    ELSE stack

RECURSIVE compress(_)
compress(stack) ==
    IF stack = <<>> THEN stack
    ELSE IF canAlwaysPush(Last(stack)) \/ findOffset(Front(stack), Last(stack)) >= 0
    THEN compress(Front(stack))
    ELSE stack

\* literals are kept
RECURSIVE deduplicateKeepingLiterals(_, _)
deduplicateKeepingLiterals(stack, newStack) ==
    IF stack = <<>> THEN newStack
    ELSE IF Head(stack).k \in {"ret"} \/ findOffset(newStack, Head(stack)) >= 0
    THEN deduplicateKeepingLiterals(Tail(stack), newStack)
    ELSE deduplicateKeepingLiterals(Tail(stack), Append(newStack, Head(stack)))

\* stack.size() > 12: the first occurrence of every slot that is neither a
\* literal nor a call return label
RECURSIVE deduplicate(_, _)
deduplicate(stack, newStack) ==
    IF stack = <<>> THEN newStack
    ELSE IF Head(stack).k \in {"lit", "ret"} \/ findOffset(newStack, Head(stack)) >= 0
    THEN deduplicate(Tail(stack), newStack)
    ELSE deduplicate(Tail(stack), Append(newStack, Head(stack)))

clamp(stack) == IF Len(stack) > 12 THEN deduplicate(stack, <<>>) ELSE stack

\* propagateStackThroughOperation: the stack before the operation, the
\* operationEntryLayout recorded for it, whether no assertion failed, and
\* whether the traversal popped from the stack it traverses.
propagateStackThroughOperation(exitStack, operation) ==
    Let(createIdealLayout(exitStack, symbolicLayout(exitStack, operation.output)), LAMBDA ideal :
    Let(junkify(ideal.stack, operation) \o operation.input, LAMBDA entry :
        [stack |-> clamp(compress(entry)), entry |-> entry, ok |-> ideal.ok,
         popped |-> compress(entry) # entry]))

\* one iteration of the loop of propagateStackThroughBlock: the stack before
\* the operation, and its operationEntryLayout in front of those collected
throughOperation(run, operation) ==
    Let(propagateStackThroughOperation(run.stack, operation), LAMBDA p :
        [stack |-> p.stack,
         entries |-> IF p.ok THEN <<p.entry>> \o run.entries ELSE run.entries,
         ok |-> p.ok,
         popped |-> run.popped \/ p.popped])

\* the loop over operations | reverse, until an assertion fails
RECURSIVE throughOperations(_, _)
throughOperations(run, operations) ==
    IF operations = <<>> \/ ~run.ok THEN run
    ELSE throughOperations(throughOperation(run, Last(operations)), Front(operations))

\* propagateStackThroughBlock: the operations in reverse; entries collects
\* the operationEntryLayout of each operation, in the order of the block.
propagateStackThroughBlock(stack, operations, entries, popped) ==
    throughOperations([stack |-> stack, entries |-> entries, ok |-> TRUE, popped |-> popped],
                      operations)

\* ------------------------------------------------------------ combineStack
RECURSIVE commonPrefix(_, _)
commonPrefix(stack1, stack2) ==
    IF stack1 = <<>> \/ stack2 = <<>> \/ Head(stack1) # Head(stack2) THEN <<>>
    ELSE <<Head(stack1)>> \o commonPrefix(Tail(stack1), Tail(stack2))

\* if (!util::findOffset(candidate, slot)) candidate.emplace_back(slot)
RECURSIVE appendUnique(_, _)
appendUnique(candidate, stack) ==
    IF stack = <<>> THEN candidate
    ELSE appendUnique(IF findOffset(candidate, Head(stack)) >= 0 THEN candidate
                      ELSE Append(candidate, Head(stack)),
                      Tail(stack))

eraseRegenerable(candidate) ==
    SelectSeq(candidate, LAMBDA slot : slot.k \notin {"lit", "ret"})

\* ++numOps; if (_depth > 16) numOps += 1000;  push and pop cost nothing
RECURSIVE numOps(_)
numOps(ops) ==
    IF ops = <<>> THEN 0
    ELSE (IF Head(ops).op \in {"swap", "dup"}
          THEN (IF Head(ops).n > 16 THEN 1001 ELSE 1)
          ELSE 0) + numOps(Tail(ops))

\* evaluate of combineStack: -1 stands for an assertion failing in the shuffler
evaluate(candidate, stack1, stack2) ==
    Let(createStackLayout(candidate, stack1), LAMBDA to1 :
    Let(createStackLayout(candidate, stack2), LAMBDA to2 :
        IF to1.kind = "assert" \/ to2.kind = "assert" THEN -1
        ELSE numOps(to1.ops) + numOps(to2.ops)))

\* std::map::insert: the first candidate of a cost stays
insertCandidate(sortedCandidates, cost, candidate) ==
    IF \E e \in sortedCandidates : e.cost = cost THEN sortedCandidates
    ELSE sortedCandidates \cup {[cost |-> cost, candidate |-> candidate]}

\* the loop after "See https://en.wikipedia.org/wiki/Heap's_algorithm": c[i]
\* is incremented together with i, so every i is met once with c[i] = 0.
RECURSIVE permutations(_, _, _, _, _, _)
permutations(candidate, c, i, sortedCandidates, stack1, stack2) ==
    IF i >= Len(candidate) THEN sortedCandidates
    ELSE IF c[i + 1] < i
    THEN Let(IF i % 2 = 1 THEN SwapAt(candidate, 0, i) ELSE SwapAt(candidate, c[i + 1], i),
             LAMBDA next :
                 permutations(next, [c EXCEPT ![i + 1] = @ + 1], i + 1,
                              insertCandidate(sortedCandidates, evaluate(next, stack1, stack2), next),
                              stack1, stack2))
    ELSE permutations(candidate, [c EXCEPT ![i + 1] = 0], i + 1, sortedCandidates, stack1, stack2)

\* sortedCandidates.begin()->second
cheapest(sortedCandidates) ==
    (CHOOSE e \in sortedCandidates : \A o \in sortedCandidates : e.cost <= o.cost).candidate

combineTails(prefix, stack1, stack2) ==
    Let(eraseRegenerable(appendUnique(appendUnique(<<>>, stack1), stack2)), LAMBDA candidate :
    Let(permutations(candidate, [x \in 1..Len(candidate) |-> 0], 1,
                     {[cost |-> evaluate(candidate, stack1, stack2), candidate |-> candidate]},
                     stack1, stack2), LAMBDA sortedCandidates :
        [stack |-> prefix \o cheapest(sortedCandidates),
         ok |-> \A e \in sortedCandidates : e.cost >= 0]))

combineStack(stack1, stack2) ==
    IF stack1 = <<>> THEN [stack |-> stack2, ok |-> TRUE]
    ELSE IF stack2 = <<>> THEN [stack |-> stack1, ok |-> TRUE]
    ELSE Let(commonPrefix(stack1, stack2), LAMBDA prefix :
             combineTails(prefix, Drop(stack1, Len(prefix)), Drop(stack2, Len(prefix))))

\* ------------------------------------------------------- processEntryPoint
\* StackLayout: blockInfos and operationEntryLayout, by block; has tells
\* whether the maps hold the block (and the operations of the block).
BlockInfo(has, entryLayout, exitLayout, operationEntryLayout) ==
    [has |-> has, entryLayout |-> entryLayout, exitLayout |-> exitLayout,
     operationEntryLayout |-> operationEntryLayout]

StackLayout(blocks) == [b \in 1..Len(blocks) |-> BlockInfo(FALSE, <<>>, <<>>, <<>>)]

\* One activation of processEntryPoint: its locals, and the position of the
\* loop over backwardsJumps once toVisit is empty.
ProcessFrame(entry) ==
    [toVisit |-> <<entry>>, visited |-> {}, backwardsJumps |-> <<>>, checked |-> 0]

functionInfoOf(g, name) ==
    g.functions[CHOOSE i \in 1..Len(g.functions) : g.functions[i].name = name]

Deferred(frame) == [known |-> FALSE, stack |-> <<>>, frame |-> frame, ok |-> TRUE]
Known(stack, frame, block, ok) ==
    [known |-> TRUE, stack |-> stack,
     frame |-> [frame EXCEPT !.visited = @ \cup {block}], ok |-> ok]

exitOfJump(layout, frame, block, exit) ==
    IF exit.backwards
    THEN Known(layout[exit.target].entryLayout,
               [frame EXCEPT !.backwardsJumps = Append(@, <<block, exit.target>>)], block, TRUE)
    ELSE IF exit.target \in frame.visited
    THEN Known(layout[exit.target].entryLayout, frame, block, layout[exit.target].has)
    ELSE Deferred([frame EXCEPT !.toVisit = <<exit.target>> \o @])

exitOfConditionalJump(layout, frame, block, exit) ==
    IF exit.zero \in frame.visited /\ exit.nonZero \in frame.visited
    THEN Let(combineStack(layout[exit.zero].entryLayout, layout[exit.nonZero].entryLayout),
             LAMBDA combined :
                 Known(Append(combined.stack, exit.condition), frame, block,
                       combined.ok /\ layout[exit.zero].has /\ layout[exit.nonZero].has))
    ELSE Deferred([frame EXCEPT !.toVisit =
                      (IF exit.nonZero \in frame.visited THEN <<>> ELSE <<exit.nonZero>>)
                      \o (IF exit.zero \in frame.visited THEN <<>> ELSE <<exit.zero>>)
                      \o @])

exitOfFunctionReturn(g, frame, block, exit) ==
    Known(Append(functionInfoOf(g, exit.info).returnVariables, FunctionReturnLabelSlot),
          frame, block, TRUE)

\* the visitor of block->exit in processEntryPoint
exitLayoutOf(g, layout, frame, block) ==
    CASE g.blocks[block].exit.t = "Jump" ->
            exitOfJump(layout, frame, block, g.blocks[block].exit)
      [] g.blocks[block].exit.t = "ConditionalJump" ->
            exitOfConditionalJump(layout, frame, block, g.blocks[block].exit)
      [] g.blocks[block].exit.t = "FunctionReturn" ->
            exitOfFunctionReturn(g, frame, block, g.blocks[block].exit)
      [] OTHER -> Known(<<>>, frame, block, TRUE)

Processed(layout, frame, ok, popped) ==
    [layout |-> layout, frame |-> frame, ok |-> ok, popped |-> popped]

\* info.exitLayout = *exitLayout; info.entryLayout = propagateStackThroughBlock(...);
\* the entries of the block go to the back of toVisit
layoutBlock(g, layout, block, exit) ==
    Let(propagateStackThroughBlock(exit.stack, g.blocks[block].operations, <<>>, FALSE),
        LAMBDA p :
        Processed([layout EXCEPT ![block] = BlockInfo(TRUE, p.stack, exit.stack, p.entries)],
                  [exit.frame EXCEPT !.toVisit = @ \o g.blocks[block].entries],
                  exit.ok /\ p.ok, p.popped))

\* a visited block goes to the back of toVisit instead of being dropped
processBlockRequeueing(g, layout, frame) ==
    IF Head(frame.toVisit) \in frame.visited
    THEN Processed(layout, [frame EXCEPT !.toVisit = Tail(@) \o <<Head(@)>>], TRUE, FALSE)
    ELSE Let(exitLayoutOf(g, layout, [frame EXCEPT !.toVisit = Tail(@)], Head(frame.toVisit)),
             LAMBDA exit :
                 IF exit.known /\ exit.ok THEN layoutBlock(g, layout, Head(frame.toVisit), exit)
                 ELSE Processed(layout, exit.frame, exit.ok, FALSE))

\* one iteration of while (!toVisit.empty())
processBlock(g, layout, frame) ==
    IF Head(frame.toVisit) \in frame.visited
    THEN Processed(layout, [frame EXCEPT !.toVisit = Tail(@)], TRUE, FALSE)
    ELSE Let(exitLayoutOf(g, layout, [frame EXCEPT !.toVisit = Tail(@)], Head(frame.toVisit)),
             LAMBDA exit :
                 IF exit.known /\ exit.ok THEN layoutBlock(g, layout, Head(frame.toVisit), exit)
                 ELSE Processed(layout, exit.frame, exit.ok, FALSE))

\* no back-edge is ever processed again
needsAnotherVisitNever(layout, backwardsJump) == FALSE

\* "This block jumps backwards, but does not provide all slots required by
\* the jump target on exit."
needsAnotherVisit(layout, backwardsJump) ==
    \E i \in 1..Len(layout[backwardsJump[2]].entryLayout) :
        findOffset(layout[backwardsJump[1]].exitLayout, layout[backwardsJump[2]].entryLayout[i]) = -1

\* ------------------------------------------------- stitchConditionalJumps
\* slots the successor does not have on entry become junk
junkUnlessIn(exitLayout, entryLayout) ==
    [i \in 1..Len(exitLayout) |->
        IF findOffset(entryLayout, exitLayout[i]) = -1 THEN JunkSlot ELSE exitLayout[i]]

stitchZero(layout, exitLayout, exit) ==
    [layout EXCEPT ![exit.zero].entryLayout = junkUnlessIn(exitLayout, @)]

\* slot = JunkSlot{} for the slots the successor has, not for those it lacks
stitchJunkIfFound(layout, block, exit) ==
    [layout EXCEPT
        ![exit.zero].entryLayout =
            [i \in 1..Len(layout[block].exitLayout) - 1 |->
                IF findOffset(@, layout[block].exitLayout[i]) >= 0 THEN JunkSlot
                ELSE layout[block].exitLayout[i]],
        ![exit.nonZero].entryLayout =
            [i \in 1..Len(layout[block].exitLayout) - 1 |->
                IF findOffset(@, layout[block].exitLayout[i]) >= 0 THEN JunkSlot
                ELSE layout[block].exitLayout[i]]]

\* without exitLayout.pop_back()
stitchKeepingTop(layout, block, exit) ==
    [layout EXCEPT ![exit.zero].entryLayout = junkUnlessIn(layout[block].exitLayout, @),
                   ![exit.nonZero].entryLayout = junkUnlessIn(layout[block].exitLayout, @)]

\* the ConditionalJump case: exitLayout.pop_back(), then both successors
stitchConditionalJump(layout, block, exit) ==
    [stitchZero(layout, Front(layout[block].exitLayout), exit)
        EXCEPT ![exit.nonZero].entryLayout = junkUnlessIn(Front(layout[block].exitLayout), @)]

Stitched(layout, ok) == [layout |-> layout, ok |-> ok]

\* _addChild of the two breadth first searches of the generator
forwardChildren(exit) ==
    CASE exit.t = "Jump" -> IF exit.backwards THEN <<>> ELSE <<exit.target>>
      [] exit.t = "ConditionalJump" -> <<exit.zero, exit.nonZero>>
      [] OTHER -> <<>>

stitchBlock(g, layout, block) ==
    IF ~layout[block].has THEN Stitched(layout, FALSE)
    ELSE IF g.blocks[block].exit.t # "ConditionalJump" THEN Stitched(layout, TRUE)
    ELSE IF ~layout[g.blocks[block].exit.zero].has
            \/ ~layout[g.blocks[block].exit.nonZero].has
            \/ layout[block].exitLayout = <<>>
    THEN Stitched(layout, FALSE)
    ELSE Stitched(stitchConditionalJump(layout, block, g.blocks[block].exit), TRUE)

\* util::BreadthFirstSearch::run with the visitor of stitchConditionalJumps
RECURSIVE stitchConditionalJumps(_, _, _, _)
stitchConditionalJumps(g, layout, verticesToTraverse, visited) ==
    IF verticesToTraverse = <<>> THEN Stitched(layout, TRUE)
    ELSE IF Head(verticesToTraverse) \in visited
    THEN stitchConditionalJumps(g, layout, Tail(verticesToTraverse), visited)
    ELSE Let(stitchBlock(g, layout, Head(verticesToTraverse)), LAMBDA s :
             IF s.ok
             THEN stitchConditionalJumps(g, s.layout,
                      Tail(verticesToTraverse)
                          \o forwardChildren(g.blocks[Head(verticesToTraverse)].exit),
                      visited \cup {Head(verticesToTraverse)})
             ELSE s)

\* ------------------------------------------- the shuffler, callback by callback
\* Every callback createStackLayout issues from cur to tgt with the stack it
\* is issued on (a frame issues one callback, or pushes onto an empty stack).
frameSteps(cur, ops) ==
    [k \in 1..Len(ops) |->
        [op |-> ops[k], stack |-> cur \o [j \in 1..(k - 1) |-> ops[j].slot]]]

\* the run so far, after one more invocation of createStackLayout
afterFrame(run, f) ==
    [kind |-> f.kind, steps |-> run.steps \o frameSteps(run.stack, f.ops), stack |-> f.stack]

\* the invocations one after the other, as long as they recurse
RECURSIVE shuffleRun(_, _)
shuffleRun(run, tgt) ==
    IF run.kind = "recurse"
    THEN shuffleRun(afterFrame(run, createStackLayoutFrame(run.stack, tgt)), tgt)
    ELSE run

shuffleSteps(cur, tgt) ==
    shuffleRun([kind |-> "recurse", steps |-> <<>>, stack |-> cur], tgt)

\* util::findOffset(currentFullStack | ranges::views::reverse, _slot)
depthOf(stack, slot) == findOffset(Reverse(stack), slot)

\* --------------------------------------------------------- fixStackTooDeep
\* the slot a callback cannot reach: the one a swap or dup deeper than 16
\* addresses, the one a push would have to dup from deeper than 16
unreachableAt(prefix, step) ==
    CASE step.op.op = "swap" /\ step.op.n > 16 ->
            <<step.stack[Len(step.stack) - step.op.n]>>
      [] step.op.op = "dup" /\ step.op.n > 16 ->
            <<step.stack[Len(step.stack) - step.op.n + 1]>>
      [] step.op.op = "push" /\ depthOf(prefix \o step.stack, step.op.slot) + 1 > 16 ->
            <<step.op.slot>>
      [] OTHER -> <<>>

RECURSIVE collectUnreachable(_, _, _)
collectUnreachable(prefix, steps, unreachable) ==
    IF steps = <<>> THEN unreachable
    ELSE collectUnreachable(prefix, Tail(steps),
                            appendUnique(unreachable, unreachableAt(prefix, Head(steps))))

\* OptimizedEVMCodeTransform::tryCreateStackLayout(current, target): the
\* slots the shuffle from current to target cannot reach
unreachableSlots(current, target) ==
    Let(commonPrefix(current, target), LAMBDA prefix :
        collectUnreachable(prefix,
            shuffleSteps(Drop(current, Len(prefix)), Drop(target, Len(prefix))).steps, <<>>))

\* the unreachable slots are put on top of the input
insertUnreachableOnTop(opEntry, operation, unreachable) == opEntry \o unreachable

\* opEntry without its input, unreachable, the input
insertUnreachable(opEntry, operation, unreachable) ==
    Take(opEntry, Len(opEntry) - Len(operation.input))
    \o unreachable
    \o TakeLast(opEntry, Len(operation.input))

\* the "ad hoc fix": the first count operations carry the unreachable slots
carryUnreachable(entries, operations, count, unreachable) ==
    IF unreachable = <<>> THEN entries
    ELSE [i \in 1..Len(entries) |->
            IF i <= count THEN insertUnreachable(entries[i], operations[i], unreachable)
            ELSE entries[i]]

\* stack = operationEntry; pop the input; stack += operation.output
afterOperation(operationEntry, operation) ==
    DropLast(operationEntry, Len(operation.input)) \o operation.output

\* the loop over the operations of a block, from operation index on, and
\* the check of the exit layout after it
RECURSIVE fixOperations(_, _, _, _, _)
fixOperations(operations, entries, index, stack, exitLayout) ==
    IF index > Len(entries)
    THEN carryUnreachable(entries, operations, Len(operations),
                          unreachableSlots(stack, exitLayout))
    ELSE fixOperations(operations,
                       carryUnreachable(entries, operations, index - 1,
                                        unreachableSlots(stack, entries[index])),
                       index + 1,
                       afterOperation(entries[index], operations[index]),
                       exitLayout)

fixBlock(g, layout, block) ==
    IF ~layout[block].has
        \/ \E child \in Range(forwardChildren(g.blocks[block].exit)) : ~layout[child].has
        \/ (g.blocks[block].exit.t = "Jump" /\ ~layout[g.blocks[block].exit.target].has)
    THEN Stitched(layout, FALSE)
    ELSE Stitched([layout EXCEPT ![block].operationEntryLayout =
                      fixOperations(g.blocks[block].operations, @, 1,
                                    layout[block].entryLayout, layout[block].exitLayout)],
                  TRUE)

\* util::BreadthFirstSearch::run with the visitor of fixStackTooDeep
RECURSIVE fixStackTooDeep(_, _, _, _)
fixStackTooDeep(g, layout, verticesToTraverse, visited) ==
    IF verticesToTraverse = <<>> THEN Stitched(layout, TRUE)
    ELSE IF Head(verticesToTraverse) \in visited
    THEN fixStackTooDeep(g, layout, Tail(verticesToTraverse), visited)
    ELSE Let(fixBlock(g, layout, Head(verticesToTraverse)), LAMBDA s :
             IF s.ok
             THEN fixStackTooDeep(g, s.layout,
                      Tail(verticesToTraverse)
                          \o forwardChildren(g.blocks[Head(verticesToTraverse)].exit),
                      visited \cup {Head(verticesToTraverse)})
             ELSE s)

\* _dfg.entry, then the entry of every function
entryPoints(g) == <<g.entry>> \o [i \in 1..Len(g.functions) |-> g.functions[i].entry]

(***************************************************************************)
(* CodeGenerator (OptimizedEVMCodeTransform.cpp).  ReturnLabelSlot{call}   *)
(* of that file is FunctionCallReturnLabelSlot(call), and ReturnLabelSlot  *)
(* without a call is FunctionReturnLabelSlot.  An item of the assembly is  *)
(* a record [i, n, name]: SWAPn, DUPn, a constant n, label n, a reference  *)
(* to or a jump to label n, the code of builtin name.                      *)
(***************************************************************************)
Item(i, n, name) == [i |-> i, n |-> n, name |-> name]

NoFunction == ""

\* materialised is not a member of the class: it lists the slots the push
\* callback produced without finding them on the stack, each with
\* m_currentFunctionInfo at that moment.  error is the assertion or the
\* std::map::at that threw, "" while none did.
NewCodeGenerator ==
    [m_stack |-> <<>>,
     m_assembly |-> <<>>,
     labels |-> 0,
     m_returnLabels |-> <<>>,
     m_blockLabels |-> <<>>,
     m_functionLabels |-> <<>>,
     m_generated |-> {},
     m_stagedBlocks |-> <<>>,
     m_stagedFunctions |-> <<>>,
     m_generatedFunctions |-> {},
     m_currentFunctionInfo |-> NoFunction,
     materialised |-> <<>>,
     error |-> ""]

throw(cg, error) == IF cg.error # "" THEN cg ELSE [cg EXCEPT !.error = error]

append(cg, item) == [cg EXCEPT !.m_assembly = Append(@, item)]

\* The label maps are sequences of <<key, label>> in the order of allocation.
hasLabel(labels, key) == \E i \in 1..Len(labels) : labels[i][1] = key
labelOf(labels, key) == labels[CHOOSE i \in 1..Len(labels) : labels[i][1] = key][2]

\* if (!m_returnLabels.count(call)) m_returnLabels[call] = m_assembly.newLabelId()
withReturnLabel(cg, call) ==
    IF hasLabel(cg.m_returnLabels, call) THEN cg
    ELSE [cg EXCEPT !.labels = @ + 1, !.m_returnLabels = Append(@, <<call, cg.labels + 1>>)]

\* m_blockLabels[block] = m_assembly.newLabelId() whether the block has a label or not
withBlockLabelAnew(cg, block) ==
    [cg EXCEPT !.labels = @ + 1,
               !.m_blockLabels = Append(SelectSeq(@, LAMBDA e : e[1] # block),
                                        <<block, cg.labels + 1>>)]

withBlockLabel(cg, block) ==
    IF hasLabel(cg.m_blockLabels, block) THEN cg
    ELSE [cg EXCEPT !.labels = @ + 1, !.m_blockLabels = Append(@, <<block, cg.labels + 1>>)]

\* CodeGenerator::tryCreateStackLayout: no swap, dup or dup of a pushed slot
\* deeper than 16
tooDeep(prefix, step) ==
    CASE step.op.op \in {"swap", "dup"} -> step.op.n > 16
      [] step.op.op = "push" -> depthOf(prefix \o step.stack, step.op.slot) + 1 > 16
      [] OTHER -> FALSE

tryCreateStackLayout(m_stack, targetStack) ==
    Let(commonPrefix(m_stack, targetStack), LAMBDA prefix :
    Let(shuffleSteps(Drop(m_stack, Len(prefix)), Drop(targetStack, Len(prefix))).steps,
        LAMBDA steps : \A k \in 1..Len(steps) : ~tooDeep(prefix, steps[k])))

\* slotsByDepth: the slots of the target behind the common prefix that are
\* on m_stack, by their depth in m_stack
slotsByDepth(m_stack, targetTail) ==
    {depthOf(m_stack, targetTail[i]) : i \in 1..Len(targetTail)} \ {-1}

\* the loop over slotsByDepth | reverse: greatest depth first, a slot that
\* is not in temporaryStack is dupped from where it is now
RECURSIVE dupUnreachable(_, _, _, _)
dupUnreachable(cg, depths, stack, temporaryStack) ==
    IF depths = {} THEN cg
    ELSE Let(stack[Len(stack) - MaxOf(depths)], LAMBDA slot :
             dupUnreachable(
                 IF findOffset(temporaryStack, slot) >= 0 THEN cg
                 ELSE append([cg EXCEPT !.m_stack = Append(@, slot)],
                             Item("DUP", depthOf(cg.m_stack, slot) + 1, "")),
                 depths \ {MaxOf(depths)}, stack, temporaryStack))

\* the visitor of the push callback, for a slot that is not on the stack
produce(cg, g, slot) ==
    CASE slot.k = "lit" -> append(cg, Item("PUSH", slot.a, ""))
      [] slot.k = "ret" ->
            append(withReturnLabel(cg, slot.a),
                   Item("PUSHLABEL", labelOf(withReturnLabel(cg, slot.a).m_returnLabels, slot.a), ""))
      [] slot.k = "fret" -> throw(cg, "Cannot produce function return label.")
      [] slot.k = "var" ->
            IF cg.m_currentFunctionInfo # NoFunction
                /\ findOffset(functionInfoOf(g, cg.m_currentFunctionInfo).returnVariables, slot) >= 0
            THEN append(cg, Item("PUSH", 0, ""))
            ELSE append(cg, Item("CALLDATASIZE", 0, ""))
      [] slot.k = "tmp" -> throw(cg, "push of a TemporarySlot")
      [] OTHER -> append(cg, Item("CALLDATASIZE", 0, ""))

\* a push callback that produces the slot whether it is on the stack or not
pushSlotProducing(cg, g, fullStack, slot) ==
    produce([cg EXCEPT !.materialised =
                Append(@, [slot |-> slot, function |-> cg.m_currentFunctionInfo])],
            g, slot)

\* the push callback of CodeGenerator::createStackLayout
pushSlot(cg, g, fullStack, slot) ==
    IF depthOf(fullStack, slot) >= 0
    THEN append(cg, Item("DUP", depthOf(fullStack, slot) + 1, ""))
    ELSE produce([cg EXCEPT !.materialised =
                     Append(@, [slot |-> slot, function |-> cg.m_currentFunctionInfo])],
                 g, slot)

\* one callback of the shuffler
emitStep(cg, g, prefix, step) ==
    CASE step.op.op = "swap" -> append(cg, Item("SWAP", step.op.n, ""))
      [] step.op.op = "dup" -> append(cg, Item("DUP", step.op.n, ""))
      [] step.op.op = "push" -> pushSlot(cg, g, prefix \o step.stack, step.op.slot)
      [] OTHER -> append(cg, Item("POP", 0, ""))

RECURSIVE emitSteps(_, _, _, _)
emitSteps(cg, g, prefix, steps) ==
    IF steps = <<>> \/ cg.error # "" THEN cg
    ELSE emitSteps(emitStep(cg, g, prefix, Head(steps)), g, prefix, Tail(steps))

\* m_stack = temporaryStack, without the common prefix
emitShuffleDroppingPrefix(cg, g, prefix, shuffle) ==
    Let(emitSteps(cg, g, prefix, shuffle.steps), LAMBDA emitted :
        IF shuffle.kind = "assert" THEN throw(emitted, "createStackLayout")
        ELSE IF emitted.error # "" THEN emitted
        ELSE [emitted EXCEPT !.m_stack = shuffle.stack])

\* ::createStackLayout with the emitting callbacks, then m_stack = commonPrefix + temporaryStack
emitShuffle(cg, g, prefix, shuffle) ==
    Let(emitSteps(cg, g, prefix, shuffle.steps), LAMBDA emitted :
        IF shuffle.kind = "assert" THEN throw(emitted, "createStackLayout")
        ELSE IF emitted.error # "" THEN emitted
        ELSE [emitted EXCEPT !.m_stack = prefix \o shuffle.stack])

shuffleBehind(cg, g, prefix, targetStack) ==
    emitShuffle(cg, g, prefix,
                shuffleSteps(Drop(cg.m_stack, Len(prefix)), Drop(targetStack, Len(prefix))))

\* CodeGenerator::createStackLayout
generatorCreateStackLayout(cg, g, targetStack) ==
    IF cg.error # "" THEN cg
    ELSE Let(commonPrefix(cg.m_stack, targetStack), LAMBDA prefix :
             shuffleBehind(
                 IF tryCreateStackLayout(cg.m_stack, targetStack) THEN cg
                 ELSE dupUnreachable(cg,
                          slotsByDepth(cg.m_stack, Drop(targetStack, Len(prefix))),
                          cg.m_stack, Drop(cg.m_stack, Len(prefix))),
                 g, prefix, targetStack))

\* CodeGenerator::validateSlot
validSlot(slot, expression) ==
    CASE expression.t = "Literal" -> slot.k = "lit" /\ slot.a = expression.value
      [] expression.t = "Identifier" -> slot.k = "var" /\ slot.a = expression.name
      [] OTHER -> slot.k = "tmp" /\ slot.a = expression.id

\* the zip of the reversed arguments with the top of m_stack
validSlots(m_stack, arguments) ==
    \A i \in 1..MinOf({Len(arguments), Len(m_stack)}) :
        validSlot(TakeLast(m_stack, MinOf({Len(arguments), Len(m_stack)}))[i],
                  Reverse(arguments)[i])

\* CodeGenerator::getFunctionLabel
getFunctionLabel(cg, name) ==
    IF hasLabel(cg.m_functionLabels, name) THEN cg
    ELSE [cg EXCEPT !.labels = @ + 1,
                    !.m_functionLabels = Append(@, <<name, cg.labels + 1>>),
                    !.m_stagedFunctions = Append(@, name)]

\* pops count slots and pushes the temporaries of the call
popAndReturn(cg, count, call, returns) ==
    [cg EXCEPT !.m_stack = DropLast(@, count) \o temporarySlots(call, returns)]

\* a call that pops the arguments and leaves the return label slot
generateFunctionCallKeepingLabel(cg, g, operation) ==
    IF ~validSlots(cg.m_stack, operation.call.arguments) THEN throw(cg, "validateSlot")
    ELSE Let(append(getFunctionLabel(cg, operation.functionName),
                    Item("JUMPTO",
                         labelOf(getFunctionLabel(cg, operation.functionName).m_functionLabels,
                                 operation.functionName),
                         operation.functionName)),
             LAMBDA called :
                 IF ~hasLabel(called.m_returnLabels, operation.call.id)
                 THEN throw(called, "m_returnLabels.at")
                 ELSE popAndReturn(
                          append(called, Item("LABEL",
                                              labelOf(called.m_returnLabels, operation.call.id), "")),
                          g.functionDecls[operation.functionName].arguments,
                          operation.call,
                          g.functionDecls[operation.functionName].returns))

\* operator()(DFG::FunctionCall const&)
generateFunctionCall(cg, g, operation) ==
    IF ~validSlots(cg.m_stack, operation.call.arguments) THEN throw(cg, "validateSlot")
    ELSE Let(append(getFunctionLabel(cg, operation.functionName),
                    Item("JUMPTO",
                         labelOf(getFunctionLabel(cg, operation.functionName).m_functionLabels,
                                 operation.functionName),
                         operation.functionName)),
             LAMBDA called :
                 IF ~hasLabel(called.m_returnLabels, operation.call.id)
                 THEN throw(called, "m_returnLabels.at")
                 ELSE popAndReturn(
                          append(called, Item("LABEL",
                                              labelOf(called.m_returnLabels, operation.call.id), "")),
                          g.functionDecls[operation.functionName].arguments + 1,
                          operation.call,
                          g.functionDecls[operation.functionName].returns))

\* the arguments of a builtin call that are not literal arguments
stackArguments(call) ==
    SelectSeq([i \in 1..Len(call.arguments) |-> [idx |-> i - 1, argument |-> call.arguments[i]]],
              LAMBDA a : a.idx \notin Dialect[call.functionName].literalArguments)

\* operator()(DFG::BuiltinCall const&)
generateBuiltinCall(cg, operation) ==
    IF ~validSlots(TakeLast(cg.m_stack, MinOf({operation.arguments, Len(cg.m_stack)})),
                   [i \in 1..Len(stackArguments(operation.call)) |->
                        stackArguments(operation.call)[i].argument])
    THEN throw(cg, "validateSlot")
    ELSE popAndReturn(append(cg, Item("BUILTIN", 0, operation.functionName)),
                      operation.arguments, operation.call,
                      Dialect[operation.functionName].returns)

\* operator()(DFG::Assignment const&)
generateAssignment(cg, operation) ==
    [cg EXCEPT !.m_stack =
        [i \in 1..Len(@) |->
            IF i > Len(@) - Len(operation.variables)
            THEN operation.variables[i - MaxOf({0, Len(@) - Len(operation.variables)})]
            ELSE IF @[i].k = "var" /\ findOffset(operation.variables, @[i]) >= 0
            THEN JunkSlot ELSE @[i]]]

\* std::visit(*this, operation.operation)
generateOperation(cg, g, operation) ==
    IF cg.error # "" THEN cg
    ELSE CASE operation.kind = "FunctionCall" -> generateFunctionCall(cg, g, operation)
           [] operation.kind = "BuiltinCall" -> generateBuiltinCall(cg, operation)
           [] OTHER -> generateAssignment(cg, operation)

\* the loop over the operations of a block stops before the last operation
RECURSIVE generateOperationsButLast(_, _, _, _)
generateOperationsButLast(cg, g, operations, entries) ==
    IF Len(operations) <= 1 \/ cg.error # "" THEN cg
    ELSE generateOperationsButLast(
             generateOperation(generatorCreateStackLayout(cg, g, Head(entries)), g,
                               Head(operations)),
             g, Tail(operations), Tail(entries))

\* the loop over the operations of a block
RECURSIVE generateOperations(_, _, _, _)
generateOperations(cg, g, operations, entries) ==
    IF operations = <<>> \/ cg.error # "" THEN cg
    ELSE generateOperations(
             generateOperation(generatorCreateStackLayout(cg, g, Head(entries)), g,
                               Head(operations)),
             g, Tail(operations), Tail(entries))

\* The outcome of operator()(DFG::BasicBlock const&) up to its last call:
\* next is the block that call generates, 0 when the operator returns.
Generated(cg, next) == [cg |-> cg, next |-> IF cg.error # "" THEN 0 ELSE next]

\* a Jump exit that generates every target without a label in place,
\* whatever the number of its predecessors
generateJumpInPlace(cg, g, layout, exit) ==
    IF ~layout[exit.target].has THEN Generated(throw(cg, "blockInfos.at"), 0)
    ELSE Let(generatorCreateStackLayout(cg, g, layout[exit.target].entryLayout), LAMBDA at :
             IF ~hasLabel(at.m_blockLabels, exit.target)
             THEN Generated(at, exit.target)
             ELSE Generated(
                      [append(at, Item("JUMPTO", labelOf(at.m_blockLabels, exit.target), ""))
                          EXCEPT !.m_stagedBlocks =
                              IF exit.target \in at.m_generated THEN @
                              ELSE Append(@, exit.target)],
                      0))

\* the Jump exit
generateJump(cg, g, layout, exit) ==
    IF ~layout[exit.target].has THEN Generated(throw(cg, "blockInfos.at"), 0)
    ELSE Let(generatorCreateStackLayout(cg, g, layout[exit.target].entryLayout), LAMBDA at :
             IF ~hasLabel(at.m_blockLabels, exit.target) /\ Len(g.blocks[exit.target].entries) = 1
             THEN Generated(at, exit.target)
             ELSE IF at.m_stack # layout[exit.target].entryLayout
             THEN Generated(throw(at, "m_stack == entryLayout of the jump target"), 0)
             ELSE Let(withBlockLabel(at, exit.target), LAMBDA labelled :
                      Generated(
                          [append(labelled,
                                  Item("JUMPTO", labelOf(labelled.m_blockLabels, exit.target), ""))
                              EXCEPT !.m_stagedBlocks =
                                  IF exit.target \in labelled.m_generated THEN @
                                  ELSE Append(@, exit.target)],
                          0)))

\* a ConditionalJump exit that jumps to the zero successor and stages it,
\* whether it is generated or not
enterSuccessorsJumping(cg, exit) ==
    Let(withBlockLabel([cg EXCEPT !.m_stagedBlocks =
                           IF exit.nonZero \in cg.m_generated THEN @ ELSE Append(@, exit.nonZero)],
                       exit.zero),
        LAMBDA labelled :
            Generated([append(labelled,
                              Item("JUMPTO", labelOf(labelled.m_blockLabels, exit.zero), ""))
                          EXCEPT !.m_stagedBlocks =
                              IF exit.zero \in labelled.m_generated THEN @
                              ELSE Append(@, exit.zero)],
                      0))

\* the ConditionalJump exit from the stack checks on
enterSuccessors(cg, exit) ==
    Let(withBlockLabel([cg EXCEPT !.m_stagedBlocks =
                           IF exit.nonZero \in cg.m_generated THEN @ ELSE Append(@, exit.nonZero)],
                       exit.zero),
        LAMBDA labelled :
            IF exit.zero \in labelled.m_generated
            THEN Generated(append(labelled,
                                  Item("JUMPTO", labelOf(labelled.m_blockLabels, exit.zero), "")),
                           0)
            ELSE Generated(labelled, exit.zero))

\* the ConditionalJump exit
generateConditionalJump(cg, layout, exit) ==
    IF ~layout[exit.nonZero].has \/ ~layout[exit.zero].has
    THEN Generated(throw(cg, "blockInfos.at"), 0)
    ELSE Let(withBlockLabel(cg, exit.nonZero), LAMBDA labelled :
         Let([append(labelled, Item("JUMPTOIF", labelOf(labelled.m_blockLabels, exit.nonZero), ""))
                 EXCEPT !.m_stack = Front(@)],
             LAMBDA jumped :
                 IF jumped.m_stack # layout[exit.nonZero].entryLayout
                 THEN Generated(throw(jumped, "m_stack == entryLayout of nonZero"), 0)
                 ELSE IF jumped.m_stack # layout[exit.zero].entryLayout
                 THEN Generated(throw(jumped, "m_stack == entryLayout of zero"), 0)
                 ELSE enterSuccessors(jumped, exit)))

\* the FunctionReturn exit
generateFunctionReturn(cg, g, exit) ==
    IF cg.m_currentFunctionInfo # exit.info \/ cg.m_currentFunctionInfo = NoFunction
    THEN Generated(throw(cg, "m_currentFunctionInfo == _functionReturn.info"), 0)
    ELSE Let(generatorCreateStackLayout(cg, g,
                 Append(functionInfoOf(g, cg.m_currentFunctionInfo).returnVariables,
                        FunctionReturnLabelSlot)),
             LAMBDA at :
                 Generated(IF at.error # "" THEN at
                           ELSE [append(at, Item("JUMP", 0, "")) EXCEPT !.m_stack = <<>>],
                           0))

\* std::visit(..., _block.exit)
generateExit(cg, g, layout, exit) ==
    IF cg.error # "" THEN Generated(cg, 0)
    ELSE CASE exit.t = "MainExit" -> Generated(append(cg, Item("STOP", 0, "")), 0)
           [] exit.t = "Jump" -> generateJump(cg, g, layout, exit)
           [] exit.t = "ConditionalJump" -> generateConditionalJump(cg, layout, exit)
           [] exit.t = "FunctionReturn" -> generateFunctionReturn(cg, g, exit)
           [] OTHER -> Generated(cg, 0)

\* a block start that places no label
appendBlockLabelNever(cg, block) == cg

\* if (auto label = util::valueOrNullptr(m_blockLabels, &_block)) appendLabel
appendBlockLabel(cg, block) ==
    IF hasLabel(cg.m_blockLabels, block)
    THEN append(cg, Item("LABEL", labelOf(cg.m_blockLabels, block), ""))
    ELSE cg

\* operator()(DFG::BasicBlock const&) from the entry layout check on
generateBody(cg, g, layout, block) ==
    IF cg.m_stack # layout[block].entryLayout
    THEN Generated(throw(cg, "m_stack == info.entryLayout"), 0)
    ELSE generateExit(
             generatorCreateStackLayout(
                 generateOperations(cg, g, g.blocks[block].operations,
                                    layout[block].operationEntryLayout),
                 g, layout[block].exitLayout),
             g, layout, g.blocks[block].exit)

\* the block is generated again whether it is in m_generated or not
generateBlockAgain(cg, g, layout, block) ==
    IF ~layout[block].has
    THEN Generated(throw([cg EXCEPT !.m_generated = @ \cup {block}], "blockInfos.at"), 0)
    ELSE generateBody(appendBlockLabel([cg EXCEPT !.m_generated = @ \cup {block}], block),
                      g, layout, block)

\* operator()(DFG::BasicBlock const&)
generateBlock(cg, g, layout, block) ==
    IF block \in cg.m_generated THEN Generated(cg, 0)
    ELSE IF ~layout[block].has
    THEN Generated(throw([cg EXCEPT !.m_generated = @ \cup {block}], "blockInfos.at"), 0)
    ELSE generateBody(appendBlockLabel([cg EXCEPT !.m_generated = @ \cup {block}], block),
                      g, layout, block)

\* a function start that leaves the current function unset
generateFunctionNoContext(cg, g, layout, name) ==
    IF ~layout[functionInfoOf(g, name).entry].has THEN throw(cg, "blockInfos.at")
    ELSE IF ~hasLabel(cg.m_functionLabels, name) THEN throw(cg, "m_functionLabels.count")
    ELSE generatorCreateStackLayout(
             append([cg EXCEPT !.m_stack = <<FunctionReturnLabelSlot>>
                                           \o Reverse(functionInfoOf(g, name).parameters)],
                    Item("LABEL", labelOf(cg.m_functionLabels, name), name)),
             g, layout[functionInfoOf(g, name).entry].entryLayout)

\* operator()(DFG::FunctionInfo const&) up to (*this)(*_functionInfo.entry)
generateFunction(cg, g, layout, name) ==
    IF cg.m_currentFunctionInfo # NoFunction THEN throw(cg, "!m_currentFunctionInfo")
    ELSE IF ~layout[functionInfoOf(g, name).entry].has THEN throw(cg, "blockInfos.at")
    ELSE IF ~hasLabel(cg.m_functionLabels, name) THEN throw(cg, "m_functionLabels.count")
    ELSE generatorCreateStackLayout(
             append([cg EXCEPT !.m_currentFunctionInfo = name,
                               !.m_stack = <<FunctionReturnLabelSlot>>
                                           \o Reverse(functionInfoOf(g, name).parameters)],
                    Item("LABEL", labelOf(cg.m_functionLabels, name), name)),
             g, layout[functionInfoOf(g, name).entry].entryLayout)

\* ------------------------------------------------------ the programs built
\* Statement templates.  The template at position i of a program names its
\* own variables 10*i+k, its calls 100*i+k and its function FunName[i]; the
\* variables 1 and 2 are declared by the prelude of every program.
MaxStmts == 2
FunName == <<"f1", "f2", "f3", "f4">>

call(i, k, name, arguments) == FunctionCall(100 * i + k, name, arguments)
v(i, k) == 10 * i + k

Prelude ==
    << VariableDeclaration(<<1>>, call(0, 1, "calldataload", <<Literal(0)>>)),
       VariableDeclaration(<<2>>, call(0, 2, "calldataload", <<Literal(32)>>)) >>

T_sstore(i) ==
    << ExpressionStatement(call(i, 1, "sstore", <<Identifier(1), Identifier(2)>>)) >>
T_nested(i) ==
    << VariableDeclaration(<<v(i, 1)>>,
           call(i, 1, "add", <<Identifier(1), call(i, 2, "calldataload", <<Identifier(2)>>)>>)),
       ExpressionStatement(call(i, 3, "sstore", <<Identifier(v(i, 1)), Literal(3)>>)) >>
T_assign(i) ==
    << Assignment(<<1>>, call(i, 1, "add", <<Identifier(1), Literal(1)>>)),
       VariableDeclarationNoValue(<<v(i, 1), v(i, 2)>>),
       Assignment(<<2>>, Identifier(v(i, 2))) >>
T_if(i) ==
    << If(call(i, 1, "lt", <<Identifier(1), Identifier(2)>>),
          <<ExpressionStatement(call(i, 2, "sstore", <<Identifier(1), Identifier(2)>>))>>) >>
T_ifStop(i) ==
    << If(Identifier(1), <<ExpressionStatement(call(i, 1, "stop", <<>>))>>) >>
T_revert(i) ==
    << ExpressionStatement(call(i, 1, "revert", <<Literal(0), Literal(0)>>)) >>
T_switch(i) ==
    << Switch(Identifier(1),
          << Case(0, <<ExpressionStatement(call(i, 1, "sstore", <<Literal(0), Identifier(2)>>))>>),
             Case(1, <<Assignment(<<2>>, Literal(3))>>),
             DefaultCase(<<>>) >>) >>
T_switchNoDefault(i) ==
    << Switch(call(i, 1, "calldataload", <<Identifier(2)>>),
          << Case(7, <<Assignment(<<1>>, Identifier(2))>>) >>) >>
T_for(i) ==
    << ForLoop(<<VariableDeclaration(<<v(i, 1)>>, Literal(0))>>,
               call(i, 1, "lt", <<Identifier(v(i, 1)), Identifier(1)>>),
               <<Assignment(<<v(i, 1)>>, call(i, 2, "add", <<Identifier(v(i, 1)), Literal(1)>>))>>,
               <<ExpressionStatement(call(i, 3, "sstore", <<Identifier(v(i, 1)), Identifier(2)>>))>>) >>
T_forBreak(i) ==
    << ForLoop(<<>>, Literal(1), <<>>,
               << If(Identifier(1), <<Break>>),
                  If(Identifier(2), <<Continue>>),
                  Assignment(<<1>>, call(i, 1, "add", <<Identifier(1), Identifier(2)>>)) >>) >>
T_forNever(i) ==
    << ForLoop(<<>>, Literal(0), <<>>,
               <<ExpressionStatement(call(i, 1, "sstore", <<Identifier(1), Identifier(2)>>))>>) >>
\* a loop in the body of a loop, with a continue of the inner loop
T_forNested(i) ==
    << ForLoop(<<VariableDeclaration(<<v(i, 1)>>, Literal(0))>>,
               call(i, 1, "lt", <<Identifier(v(i, 1)), Identifier(1)>>),
               <<Assignment(<<v(i, 1)>>, call(i, 2, "add", <<Identifier(v(i, 1)), Literal(1)>>))>>,
               << ForLoop(<<>>,
                          call(i, 3, "lt", <<Identifier(2), Identifier(v(i, 1))>>),
                          <<Assignment(<<2>>, call(i, 4, "add", <<Identifier(2), Literal(1)>>))>>,
                          << If(Identifier(1), <<Continue>>),
                             ExpressionStatement(call(i, 5, "sstore",
                                 <<Identifier(v(i, 1)), Identifier(2)>>)) >>) >>) >>
T_function(i) ==
    << FunctionDefinition(FunName[i], <<v(i, 1)>>, <<v(i, 2)>>,
           << Assignment(<<v(i, 2)>>, call(i, 1, "add", <<Identifier(v(i, 1)), Literal(1)>>)),
              If(Identifier(v(i, 1)), <<Leave>>),
              Assignment(<<v(i, 2)>>, Literal(2)) >>),
       Assignment(<<1>>, call(i, 2, FunName[i], <<Identifier(2)>>)) >>
T_function2(i) ==
    << VariableDeclaration(<<v(i, 5), v(i, 6)>>,
           call(i, 1, FunName[i], <<Identifier(1), Literal(5), Identifier(2)>>)),
       FunctionDefinition(FunName[i], <<v(i, 1), v(i, 2), v(i, 3)>>, <<v(i, 4), v(i, 7)>>,
           << Assignment(<<v(i, 4)>>, Identifier(v(i, 2))) >>),
       ExpressionStatement(call(i, 2, "sstore", <<Identifier(v(i, 5)), Identifier(v(i, 6))>>)) >>
T_immutable(i) ==
    << ExpressionStatement(call(i, 1, "setimmutable", <<Identifier(1), Literal(9), Identifier(2)>>)),
       Block(<<VariableDeclaration(<<v(i, 1)>>, call(i, 2, "loadimmutable", <<Literal(9)>>)),
               ExpressionStatement(call(i, 3, "pop", <<Identifier(v(i, 1))>>))>>) >>

Template(t, i) ==
    CASE t = "sstore" -> T_sstore(i) [] t = "nested" -> T_nested(i)
      [] t = "assign" -> T_assign(i) [] t = "if" -> T_if(i)
      [] t = "ifStop" -> T_ifStop(i) [] t = "revert" -> T_revert(i)
      [] t = "switch" -> T_switch(i) [] t = "switchNoDefault" -> T_switchNoDefault(i)
      [] t = "for" -> T_for(i) [] t = "forBreak" -> T_forBreak(i)
      [] t = "forNever" -> T_forNever(i) [] t = "forNested" -> T_forNested(i)
      [] t = "function" -> T_function(i)
      [] t = "function2" -> T_function2(i) [] OTHER -> T_immutable(i)

Templates ==
    {"sstore", "nested", "assign", "if", "ifStop", "revert", "switch", "switchNoDefault",
     "for", "forBreak", "forNever", "forNested", "function", "function2", "immutable"}

RECURSIVE Instantiate(_, _)
Instantiate(ts, i) ==
    IF ts = <<>> THEN <<>> ELSE Template(Head(ts), i) \o Instantiate(Tail(ts), i + 1)

Programs == {Prelude \o Instantiate(ts, 1) : ts \in SeqsUpTo(Templates, MaxStmts)}

\* Programs that keep more variables alive than SWAP16 and DUP16 reach:
\* let 1 := calldataload(1) ... let n := calldataload(n), then a use of
\* every variable in the order of the declarations.
MaxVariables == 18

Declarations(n) ==
    [i \in 1..n |-> VariableDeclaration(<<i>>, call(0, i, "calldataload", <<Literal(i)>>))]

Uses(n) ==
    [i \in 1..n |-> ExpressionStatement(call(1, i, "sstore", <<Identifier(i), Identifier(i)>>))]

\* a loop that runs while the first variable is not zero and uses the
\* variables in the opposite order
T_deepLoop(n) ==
    << ForLoop(<<>>, Identifier(1),
               <<Assignment(<<1>>, call(2, 1, "calldataload", <<Identifier(2)>>))>>,
               Reverse(Uses(n))) >>

\* a call of a user function and a store of a literal whose top arguments
\* are fresh temporaries, so that the return label, a second copy of the
\* first variable and the literal stay below them
T_wideCall ==
    << FunctionDefinition(FunName[3], <<v(30, 1), v(30, 3)>>, <<v(30, 2)>>,
           << Assignment(<<v(30, 2)>>, Identifier(v(30, 1))) >>),
       ExpressionStatement(
           call(3, 1, "sstore",
                << call(3, 2, FunName[3],
                        <<call(3, 3, "calldataload", <<Literal(0)>>), Identifier(1)>>),
                   Literal(7) >>)) >>

DeepPrograms ==
    {Declarations(MaxVariables) \o Uses(MaxVariables),
     Declarations(MaxVariables) \o T_deepLoop(MaxVariables),
     Declarations(MaxVariables) \o T_wideCall \o Uses(MaxVariables)}

\* The worked examples: a store of two literals; a variable used twice by
\* one call; a conditional store; a function of two return variables
\* whose call declares two variables.
E_storeOf(address, value) ==
    << ExpressionStatement(call(1, 1, "sstore", <<Literal(address), Literal(value)>>)) >>
E_store == E_storeOf(0, 42)
E_dupOf(value, address) ==
    << VariableDeclaration(<<1>>, Literal(value)),
       VariableDeclaration(<<2>>, call(1, 1, "add", <<Identifier(1), Identifier(1)>>)),
       ExpressionStatement(call(1, 2, "sstore", <<Literal(address), Identifier(2)>>)) >>
E_dup == E_dupOf(7, 0)
E_ifOf(address, value) ==
    Prelude \o
    << If(call(1, 1, "lt", <<Identifier(1), Identifier(2)>>),
          <<ExpressionStatement(call(1, 2, "sstore", <<Literal(address), Literal(value)>>))>>) >>
E_if == E_ifOf(0, 1)
E_call ==
    << FunctionDefinition(FunName[1], <<>>, <<v(1, 1), v(1, 2)>>,
           << Assignment(<<v(1, 1)>>, Literal(1)), Assignment(<<v(1, 2)>>, Literal(2)) >>),
       VariableDeclaration(<<1, 2>>, call(1, 1, FunName[1], <<>>)) >>

\* the stores of two literals, equal ones included
LiteralStores == {E_storeOf(address, value) : address, value \in {0, 42}}

\* the sums of a variable with itself that are stored, the value of the
\* variable equal to the address of the store included
StoredSums == {E_dupOf(value, address) : value, address \in {0, 7}}

\* the conditional stores of two literals
ConditionalStores == {E_ifOf(address, value) : address, value \in {0, 1}}

\* functions with a branch, so that blocks are staged while a function is
\* generated: one that stores under a condition, one that leaves under a
\* condition, and both called one after the other
E_branch(i) ==
    << FunctionDefinition(FunName[i], <<>>, <<>>,
           << If(call(i, 1, "calldataload", <<Literal(0)>>),
                 <<ExpressionStatement(call(i, 2, "sstore", <<Literal(0), Literal(1)>>))>>) >>),
       ExpressionStatement(call(i, 3, FunName[i], <<>>)) >>
E_leave(i) ==
    << FunctionDefinition(FunName[i], <<>>, <<>>,
           << If(call(i, 1, "calldataload", <<Literal(0)>>), <<Leave>>),
              ExpressionStatement(call(i, 2, "sstore", <<Literal(0), Literal(1)>>)) >>),
       ExpressionStatement(call(i, 3, FunName[i], <<>>)) >>
BranchingFunctions == {E_branch(1), E_leave(1), E_branch(1) \o E_leave(2)}

\* Loops whose exits are marked: sstore(l, k) is marker k of loop (or
\* function) l.  Markers 1 and 3 stand before a break and a continue, 2 and 4
\* after them, 5 opens the post block, 6 follows the loop, 7 and 8 stand
\* before and after a leave; the markers after an inner loop or an inner
\* function are shifted by 10.
mark(l, k) == ExpressionStatement(call(l, k, "sstore", <<Literal(l), Literal(k)>>))
E_exits(l, o, a, b) ==
    << If(Identifier(a), <<mark(l, o + 1), Break, mark(l, o + 2)>>),
       If(Identifier(b), <<mark(l, o + 3), Continue, mark(l, o + 4)>>) >>
E_loopOn(l, condition, a, b, inner) ==
    << ForLoop(<<>>, condition, <<mark(l, 5)>>,
               E_exits(l, 0, a, b) \o inner \o E_exits(l, 10, a, b)),
       mark(l, 6) >>
E_loop(l, condition, inner) == E_loopOn(l, condition, 1, 2, inner)
\* a function with its own variables a and b, a loop and a leave
E_leaving(l, a, b, condition) ==
    << FunctionDefinition(FunName[l], <<>>, <<>>,
           << VariableDeclaration(<<a>>, Literal(1)), VariableDeclaration(<<b>>, Literal(2)) >>
           \o E_loopOn(l - 1, condition, a, b, <<>>)
           \o << If(Identifier(a), <<mark(l, 7), Leave, mark(l, 8)>>) >>) >>
LoopConditionsOn(a, b) ==
    {Literal(1), Identifier(a), call(0, 3, "lt", <<Identifier(a), Identifier(b)>>)}
LoopConditions == LoopConditionsOn(1, 2)
NestedLoops == {E_loop(1, c1, E_loop(2, c2, <<>>)) : c1, c2 \in LoopConditions}
LoopsInSequence == {E_loop(1, c1, <<>>) \o E_loop(2, c2, <<>>) : c1, c2 \in LoopConditions}
LoopsAroundFunctions ==
    {E_loop(1, c1, E_leaving(3, v(3, 1), v(3, 2), c2)) :
         c1 \in LoopConditions, c2 \in LoopConditionsOn(v(3, 1), v(3, 2))}
LoopPrograms ==
    {Prelude \o program : program \in NestedLoops \cup LoopsInSequence \cup LoopsAroundFunctions}

\* Switches whose bodies are marked: the scrutinee of switch s is variable s;
\* the body of the case with literal value starts with marker value + 41 and
\* ends with marker value + 61, the default body with 49 and 69; marker 50
\* follows the switch.  inner is lowered inside the first body.
E_body(s, k, inner) == <<mark(s, k)>> \o inner \o <<mark(s, k + 20)>>
E_cases(s, values, inner) ==
    [i \in DOMAIN values |->
        Case(values[i], E_body(s, values[i] + 41, IF i = 1 THEN inner ELSE <<>>))]
E_switch(s, values, hasDefault, inner) ==
    << Switch(Identifier(s),
              E_cases(s, values, inner)
                  \o (IF hasDefault
                      THEN <<DefaultCase(E_body(s, 49, IF values = <<>> THEN inner ELSE <<>>))>>
                      ELSE <<>>)),
       mark(s, 50) >>
SwitchShapes ==
    {shape \in {<<>>, <<0>>, <<0, 1>>, <<1, 0, 2>>} \X BOOLEAN : shape[1] # <<>> \/ shape[2]}
SwitchPrograms ==
    {Prelude \o E_switch(1, s1[1], s1[2], <<>>) : s1 \in SwitchShapes}
        \cup {Prelude \o E_switch(1, s1[1], s1[2], E_switch(2, s2[1], s2[2], <<>>)) :
                  s1, s2 \in SwitchShapes}
        \cup {Prelude \o E_switch(1, s1[1], s1[2], <<>>) \o E_switch(2, s2[1], s2[2], <<>>) :
                  s1, s2 \in SwitchShapes}

\* Halts: a terminating builtin followed by marker 30; marker 31 follows the
\* construct around them.
E_halt(l, name) ==
    IF name = "stop"
    THEN << ExpressionStatement(call(l, 90, "stop", <<>>)), mark(l, 30) >>
    ELSE << ExpressionStatement(call(l, 90, "revert", <<Literal(0), Identifier(1)>>)),
            mark(l, 30) >>
E_haltIn(l, name, shape) ==
    CASE shape = "if" -> << If(Identifier(1), E_halt(l, name)), mark(l, 31) >>
      [] shape = "ifThen" ->
            E_halt(l, name) \o << If(Identifier(2), <<mark(l, 32)>>), mark(l, 31) >>
      [] shape = "loop" ->
            << ForLoop(<<>>, Identifier(1), <<mark(l, 5)>>, E_halt(l, name)), mark(l, 31) >>
      [] shape = "loopContinue" ->
            << ForLoop(<<>>, Identifier(1), <<mark(l, 5)>>,
                       <<If(Identifier(2), <<Continue>>)>> \o E_halt(l, name)),
               mark(l, 31) >>
      [] shape = "switch" ->
            << Switch(Identifier(1), <<Case(0, E_halt(l, name)), DefaultCase(<<mark(l, 32)>>)>>),
               mark(l, 31) >>
      [] shape = "function" ->
            << FunctionDefinition(FunName[l], <<v(l, 1)>>, <<>>,
                   << If(Identifier(v(l, 1)), E_halt(l, name)), mark(l, 32) >>),
               ExpressionStatement(call(l, 91, FunName[l], <<Identifier(1)>>)),
               mark(l, 31) >>
      [] OTHER -> E_halt(l, name) \o << mark(l, 31) >>
HaltShapes == {"plain", "if", "ifThen", "loop", "loopContinue", "switch", "function"}
HaltingPrograms ==
    {Prelude \o E_haltIn(1, name, shape) : name \in {"stop", "revert"}, shape \in HaltShapes}
        \cup {Prelude \o E_haltIn(1, "revert", s1) \o E_haltIn(2, "stop", s2) :
                  s1, s2 \in HaltShapes}

ExamplePrograms ==
    LiteralStores \cup StoredSums \cup ConditionalStores \cup {E_call} \cup BranchingFunctions

\* ------------------------------------------------- the builder as a machine
EmptyDFG == DFG(NewBuilder(<<>>), <<>>)

BuilderIdle ==
    /\ source = <<>>
    /\ b_rest = <<>>
    /\ bld = NewBuilder(<<>>)
    /\ dfg = EmptyDFG
    /\ b_pc = "idle"

PropagateIdle ==
    /\ p_exit = <<>>
    /\ p_op = assignmentOperation(<<>>, <<>>)
    /\ p_entry = <<>>
    /\ p_stack = <<>>
    /\ p_pc = "idle"

TargetIdle ==
    /\ t_stack = <<>>
    /\ t_target = <<>>
    /\ t_pc = "idle"

ShuffleIdle ==
    /\ sh_init = <<>>
    /\ sh_cur = <<>>
    /\ sh_tgt = <<>>
    /\ sh_ops = <<>>
    /\ sh_rec = FALSE
    /\ sh_pc = "idle"

LayoutIdle ==
    /\ m_layout = <<>>
    /\ l_frames = <<>>
    /\ l_roots = <<>>
    /\ l_pc = "idle"

\* Calls whose arguments are calls.  The argument at source position k has
\* the calls 100 * (4 + k) + 1 .. 3; the enclosing call is 401 and the
\* function of two parameters it may call is FunName[3].
E_argument(shape, k) ==
    CASE shape = "identifier" -> Identifier(k)
      [] shape = "literal" -> Literal(90)
      [] shape = "load" -> call(4 + k, 1, "calldataload", <<Identifier(1)>>)
      [] shape = "sum" ->
            call(4 + k, 1, "add", << call(4 + k, 2, "calldataload", <<Identifier(1)>>),
                                     call(4 + k, 3, "calldataload", <<Identifier(2)>>) >>)
      [] OTHER ->
            call(4 + k, 1, FunName[3], << call(4 + k, 2, "calldataload", <<Identifier(2)>>),
                                          Identifier(1) >>)
ArgumentShapes == {"identifier", "literal", "load", "sum", "user"}

E_function ==
    FunctionDefinition(FunName[3], <<v(3, 1), v(3, 2)>>, <<v(3, 3)>>,
        << Assignment(<<v(3, 3)>>,
               call(3, 1, "add", << call(3, 2, "calldataload", <<Identifier(v(3, 1))>>),
                                    call(3, 3, "calldataload", <<Identifier(v(3, 2))>>) >>)) >>)

E_evaluation(consumer, name, first, second) ==
    CASE consumer = "declare" ->
            << VariableDeclaration(<<v(4, 1)>>, call(4, 1, name, <<first, second>>)) >>
      [] consumer = "assign" ->
            << Assignment(<<2>>, call(4, 1, name, <<first, second>>)) >>
      [] consumer = "immutable" ->
            << ExpressionStatement(call(4, 1, "setimmutable", <<first, Literal(9), second>>)) >>
      [] OTHER ->
            << ExpressionStatement(call(4, 1, "sstore", <<first, second>>)) >>

EvaluationPrograms ==
    {Prelude \o <<E_function>> \o E_evaluation(consumer, name, E_argument(s1, 1), E_argument(s2, 2)) :
         consumer \in {"declare", "assign", "immutable", "store"}, name \in {"add", FunName[3]},
         s1 \in ArgumentShapes, s2 \in ArgumentShapes}

CodegenIdle ==
    /\ gen = NewCodeGenerator
    /\ c_block = 0
    /\ c_function = NoFunction
    /\ c_ret = "idle"
    /\ c_pc = "idle"

\* DataFlowGraphBuilder::build up to builder(_block)
BuildOf(programs) ==
    /\ source \in programs
    /\ b_rest = source
    /\ bld = NewBuilder(functionDeclsOf(source))
    /\ dfg = EmptyDFG
    /\ b_pc = "visit"

InitBuild ==
    /\ ShuffleIdle
    /\ PropagateIdle
    /\ TargetIdle
    /\ LayoutIdle
    /\ CodegenIdle
    /\ BuildOf(Programs \cup LoopPrograms \cup SwitchPrograms \cup HaltingPrograms
                 \cup EvaluationPrograms)

\* builder(_block), one statement of the block at a time
VisitStatement ==
    /\ b_pc = "visit"
    /\ b_rest # <<>>
    /\ LET g == visitStatement(bld, Head(b_rest))
       IN /\ bld' = g
          /\ b_pc' = IF g.failed THEN "failed" ELSE "visit"
    /\ b_rest' = Tail(b_rest)
    /\ UNCHANGED <<source, dfg>>

\* the rest of build: the reachability check and the removal of the entries
FinishBuild ==
    /\ b_pc = "visit"
    /\ b_rest = <<>>
    /\ dfg' = DFG(bld, pruneEntries(bld, reachabilityCheck(bld)))
    /\ b_pc' = "built"
    /\ UNCHANGED <<source, b_rest, bld>>

\* ------------------------------------------- StackLayoutGenerator::run
\* the construction of the generator and the first processEntryPoint call
StartLayout ==
    /\ b_pc = "built"
    /\ l_pc = "idle"
    /\ m_layout' = StackLayout(dfg.blocks)
    /\ l_roots' = entryPoints(dfg)
    /\ l_frames' = <<ProcessFrame(dfg.entry)>>
    /\ l_pc' = "process"

\* processEntryPoint: one iteration of while (!toVisit.empty()).  Popping
\* from the vector a range-based for loop traverses is undefined behaviour:
\* a vector keeps its storage and the traversal goes on at the new top, a
\* library that checks its iterators stops the program.
ProcessBlock ==
    /\ l_pc = "process"
    /\ l_frames # <<>>
    /\ Head(l_frames).toVisit # <<>>
    /\ LET p == processBlock(dfg, m_layout, Head(l_frames))
       IN /\ m_layout' = p.layout
          /\ l_frames' = <<p.frame>> \o Tail(l_frames)
          /\ l_pc' \in (IF p.ok THEN {"process"} ELSE {"failed"})
                        \cup (IF p.popped THEN {"failed"} ELSE {})
    /\ UNCHANGED l_roots

\* processEntryPoint: one iteration of the loop over backwardsJumps, which
\* calls processEntryPoint(block) when the jump target needs more
CheckBackwardsJump ==
    /\ l_pc = "process"
    /\ l_frames # <<>>
    /\ Head(l_frames).toVisit = <<>>
    /\ Head(l_frames).checked < Len(Head(l_frames).backwardsJumps)
    /\ LET frame == Head(l_frames)
           backwardsJump == frame.backwardsJumps[frame.checked + 1]
           checked == [frame EXCEPT !.checked = @ + 1]
       IN l_frames' = (IF needsAnotherVisit(m_layout, backwardsJump)
                       THEN <<ProcessFrame(backwardsJump[1])>> ELSE <<>>)
                      \o <<checked>> \o Tail(l_frames)
    /\ UNCHANGED <<m_layout, l_roots, l_pc>>

\* processEntryPoint returns: to the activation that called it, or to run,
\* which goes on with the next entry point and then with the stitching
ReturnFromEntryPoint ==
    /\ l_pc = "process"
    /\ l_frames # <<>>
    /\ Head(l_frames).toVisit = <<>>
    /\ Head(l_frames).checked = Len(Head(l_frames).backwardsJumps)
    /\ IF Len(l_frames) > 1
       THEN /\ l_frames' = Tail(l_frames)
            /\ UNCHANGED <<l_roots, l_pc>>
       ELSE IF Len(l_roots) > 1
       THEN /\ l_frames' = <<ProcessFrame(l_roots[2])>>
            /\ l_roots' = Tail(l_roots)
            /\ UNCHANGED l_pc
       ELSE /\ l_frames' = <<>>
            /\ l_roots' = entryPoints(dfg)
            /\ l_pc' = "stitch"
    /\ UNCHANGED m_layout

\* run: stitchConditionalJumps of the next entry point
Stitch ==
    /\ l_pc = "stitch"
    /\ LET s == stitchConditionalJumps(dfg, m_layout, <<Head(l_roots)>>, {})
       IN /\ m_layout' = s.layout
          /\ l_pc' = IF ~s.ok THEN "failed" ELSE IF Len(l_roots) > 1 THEN "stitch" ELSE "fix"
          /\ l_roots' = IF s.ok /\ Len(l_roots) = 1 THEN entryPoints(dfg) ELSE Tail(l_roots)
    /\ UNCHANGED l_frames

\* run: fixStackTooDeep of the next entry point
Fix ==
    /\ l_pc = "fix"
    /\ LET s == fixStackTooDeep(dfg, m_layout, <<Head(l_roots)>>, {})
       IN /\ m_layout' = s.layout
          /\ l_pc' = IF ~s.ok THEN "failed" ELSE IF Len(l_roots) > 1 THEN "fix" ELSE "done"
    /\ l_roots' = Tail(l_roots)
    /\ UNCHANGED l_frames

NextLayout ==
    \/ StartLayout
    \/ ProcessBlock
    \/ CheckBackwardsJump
    \/ ReturnFromEntryPoint
    \/ Stitch
    \/ Fix

\* ------------------------------------------------- CodeGenerator::run
\* the construction of the generator; generator(_entry) is about to run
StartCodegen ==
    /\ l_pc = "done"
    /\ c_pc = "idle"
    /\ gen' = NewCodeGenerator
    /\ c_block' = dfg.entry
    /\ c_function' = NoFunction
    /\ c_ret' = "stagedBlocks"
    /\ c_pc' = "block"

\* operator()(BasicBlock): the block c_block up to the call that generates
\* its successor in place, or up to its return
GenerateBlock ==
    /\ c_pc = "block"
    /\ LET generated == generateBlock(gen, dfg, m_layout, c_block)
       IN /\ gen' = generated.cg
          /\ c_block' = generated.next
          /\ c_pc' = IF generated.cg.error # "" THEN "failed"
                     ELSE IF generated.next # 0 THEN "block"
                     ELSE c_ret
    /\ UNCHANGED <<c_function, c_ret>>

\* generateStaged: one iteration of a loop over m_stagedBlocks
GenerateStagedBlock ==
    /\ c_pc \in {"stagedBlocks", "functionBlocks"}
    /\ gen.m_stagedBlocks # <<>>
    /\ IF m_layout[Head(gen.m_stagedBlocks)].has
       THEN /\ gen' = [gen EXCEPT !.m_stagedBlocks = Tail(@),
                                !.m_stack = m_layout[Head(gen.m_stagedBlocks)].entryLayout]
            /\ c_pc' = "block"
       ELSE /\ gen' = throw([gen EXCEPT !.m_stagedBlocks = Tail(@)], "blockInfos.at")
            /\ c_pc' = "failed"
    /\ c_block' = Head(gen.m_stagedBlocks)
    /\ c_ret' = c_pc
    /\ UNCHANGED c_function

\* generateStaged: a loop over m_stagedBlocks ends
StagedBlocksGenerated ==
    /\ c_pc \in {"stagedBlocks", "functionBlocks"}
    /\ gen.m_stagedBlocks = <<>>
    /\ gen' = IF c_pc = "functionBlocks" THEN [gen EXCEPT !.m_currentFunctionInfo = NoFunction]
             ELSE gen
    /\ c_pc' = "functions"
    /\ UNCHANGED <<c_block, c_function, c_ret>>

\* generateStaged: one iteration of the loop over m_stagedFunctions up to
\* the call of operator()(BasicBlock) in operator()(FunctionInfo)
GenerateStagedFunction ==
    /\ c_pc = "functions"
    /\ gen.m_stagedFunctions # <<>>
    /\ LET name == Head(gen.m_stagedFunctions)
           popped == [gen EXCEPT !.m_stagedFunctions = Tail(@)]
       IN /\ c_function' = name
          /\ IF name \in gen.m_generatedFunctions
             THEN /\ gen' = IF gen.m_currentFunctionInfo # NoFunction
                           THEN throw(popped, "!m_currentFunctionInfo")
                           ELSE [popped EXCEPT !.m_currentFunctionInfo = name]
                  /\ c_pc' = IF gen.m_currentFunctionInfo # NoFunction THEN "failed"
                             ELSE "functionBlocks"
                  /\ UNCHANGED <<c_block, c_ret>>
             ELSE LET generated ==
                          generateFunction([popped EXCEPT !.m_generatedFunctions = @ \cup {name}],
                                           dfg, m_layout, name)
                  IN /\ gen' = generated
                     /\ c_block' = functionInfoOf(dfg, name).entry
                     /\ c_ret' = "function"
                     /\ c_pc' = IF generated.error # "" THEN "failed" ELSE "block"

\* operator()(FunctionInfo) returns to generateStaged, which sets
\* m_currentFunctionInfo for the staged blocks of the function
FunctionGenerated ==
    /\ c_pc = "function"
    /\ gen' = [gen EXCEPT !.m_currentFunctionInfo = c_function]
    /\ c_pc' = "functionBlocks"
    /\ UNCHANGED <<c_block, c_function, c_ret>>

\* generateStaged returns
CodegenDone ==
    /\ c_pc = "functions"
    /\ gen.m_stagedFunctions = <<>>
    /\ c_pc' = "done"
    /\ UNCHANGED <<gen, c_block, c_function, c_ret>>

NextCodegen ==
    \/ StartCodegen
    \/ GenerateBlock
    \/ GenerateStagedBlock
    \/ StagedBlocksGenerated
    \/ GenerateStagedFunction
    \/ FunctionGenerated
    \/ CodegenDone

\* ------------------------------------------------ the shuffler as a machine
MaxLen == 3
ShSlots == {JunkSlot, VariableSlot(1), VariableSlot(2), LiteralSlot(0)}
ShSlotsQuiet == {JunkSlot, VariableSlot(1), VariableSlot(2)}

InitShuffleWith(rec, slots) ==
    /\ sh_init \in SeqsUpTo(slots, MaxLen)
    /\ sh_tgt \in SeqsUpTo(slots, MaxLen)
    /\ sh_cur = sh_init
    /\ sh_ops = <<>>
    /\ sh_rec = rec
    /\ sh_pc = "call"
    /\ PropagateIdle
    /\ TargetIdle
    /\ BuilderIdle
    /\ LayoutIdle
    /\ CodegenIdle

ShuffleFrame ==
    /\ sh_pc = "call"
    /\ LET f == createStackLayoutFrame(sh_cur, sh_tgt)
       IN /\ sh_cur' = f.stack
          /\ sh_ops' = IF sh_rec THEN sh_ops \o f.ops ELSE sh_ops
          /\ sh_pc' = CASE f.kind = "recurse" -> "call"
                        [] f.kind = "return" -> "returned"
                        [] OTHER -> "assertFailed"
    /\ UNCHANGED <<sh_init, sh_tgt, sh_rec>>
    /\ UNCHANGED <<bVars, lVars, cVars, pVars, tVars>>

NextShuffle == ShuffleFrame

InitShuffle == InitShuffleWith(TRUE, ShSlots)
SpecShuffle == InitShuffle /\ [][NextShuffle]_vars

\* The compiler runs each pass to completion on one thread: a frame that can
\* run does run.
InitShuffleQuiet == InitShuffleWith(FALSE, ShSlotsQuiet)
SpecShuffleFair == InitShuffleQuiet /\ [][NextShuffle]_vars /\ WF_vars(NextShuffle)

\* --------------------------- propagateStackThroughOperation as a machine
\* The exit stacks hold the outputs of the operation anywhere and any number
\* of times, among variables the operation reads, assigns or does not touch.
MaxExit == 4
ExitSlots ==
    {TemporarySlot(701, 0), TemporarySlot(701, 1), VariableSlot(1), VariableSlot(2),
     VariableSlot(3)}
PropagatedOperations ==
    {builtinCallOperation(call(7, 1, "calldataload", <<Identifier(1)>>), <<VariableSlot(1)>>),
     builtinCallOperation(call(7, 1, "sstore", <<Identifier(1), Identifier(2)>>),
                          <<VariableSlot(2), VariableSlot(1)>>),
     functionCallOperation(call(7, 1, FunName[1], <<Identifier(1)>>), <<VariableSlot(1)>>,
                           [arguments |-> 1, returns |-> 2]),
     assignmentOperation(<<TemporarySlot(701, 0)>>, <<VariableSlot(1)>>),
     assignmentOperation(<<TemporarySlot(701, 0), TemporarySlot(701, 1)>>,
                         <<VariableSlot(1), VariableSlot(2)>>),
     assignmentOperation(<<VariableSlot(3)>>, <<VariableSlot(1)>>)}

InitPropagate ==
    /\ p_exit \in SeqsUpTo(ExitSlots, MaxExit)
    /\ p_op \in PropagatedOperations
    /\ p_entry = <<>>
    /\ p_stack = <<>>
    /\ p_pc = "call"
    /\ TargetIdle
    /\ ShuffleIdle
    /\ BuilderIdle
    /\ LayoutIdle
    /\ CodegenIdle

\* one call of propagateStackThroughOperation
Propagate ==
    /\ p_pc = "call"
    /\ LET p == propagateStackThroughOperation(p_exit, p_op)
       IN /\ p_entry' = IF p.ok THEN p.entry ELSE p_entry
          /\ p_stack' = IF p.ok THEN p.stack ELSE p_stack
          /\ p_pc' = IF p.ok THEN "returned" ELSE "assertFailed"
    /\ UNCHANGED <<p_exit, p_op>>
    /\ UNCHANGED <<shVars, bVars, lVars, cVars, tVars>>

NextPropagate == Propagate

SpecPropagate == InitPropagate /\ [][NextPropagate]_vars

\* ------------------------ CodeGenerator::createStackLayout as a machine
\* Small stacks and targets, and stacks that hold more variables than SWAP16
\* and DUP16 reach, with targets that want the top at the bottom of the rest
\* and the slot of the common prefix once more.
TargetSlots == {VariableSlot(1), VariableSlot(2), LiteralSlot(0)}
DeepStack == [i \in 1..MaxVariables |-> VariableSlot(i)]
DeepTargets ==
    {SwapAt(DeepStack, 1, MaxVariables - 1),
     Append(SwapAt(DeepStack, 1, MaxVariables - 1), VariableSlot(1)),
     Append(DeepStack, VariableSlot(1)),
     <<VariableSlot(1), VariableSlot(1)>>}

InitCreateLayout ==
    /\ \/ /\ t_stack \in SeqsUpTo(TargetSlots, MaxLen)
          /\ t_target \in SeqsUpTo(TargetSlots, MaxLen)
       \/ /\ t_stack = DeepStack
          /\ t_target \in DeepTargets
    /\ t_pc = "call"
    /\ gen = [NewCodeGenerator EXCEPT !.m_stack = t_stack]
    /\ c_block = 0
    /\ c_function = NoFunction
    /\ c_ret = "idle"
    /\ c_pc = "idle"
    /\ ShuffleIdle
    /\ PropagateIdle
    /\ BuilderIdle
    /\ LayoutIdle

\* one call of CodeGenerator::createStackLayout
CreateLayout ==
    /\ t_pc = "call"
    /\ gen' = generatorCreateStackLayout(gen, dfg, t_target)
    /\ t_pc' = IF gen'.error = "" THEN "returned" ELSE "failed"
    /\ UNCHANGED <<t_stack, t_target, c_block, c_function, c_ret, c_pc>>
    /\ UNCHANGED <<shVars, bVars, lVars, pVars>>

NextCreateLayout == CreateLayout

SpecCreateLayout == InitCreateLayout /\ [][NextCreateLayout]_vars

NextBuilder ==
    \/ VisitStatement /\ UNCHANGED <<tVars, pVars, shVars, lVars, cVars>>
    \/ FinishBuild /\ UNCHANGED <<tVars, pVars, shVars, lVars, cVars>>

SpecBuilder == InitBuild /\ [][NextBuilder]_vars

\* the passes one after the other, as OptimizedCodeTransform::run calls them
InitCompile ==
    /\ ShuffleIdle
    /\ PropagateIdle
    /\ TargetIdle
    /\ LayoutIdle
    /\ CodegenIdle
    /\ BuildOf(Programs \cup DeepPrograms \cup ExamplePrograms)

NextCompile ==
    \/ NextBuilder
    \/ NextLayout /\ UNCHANGED <<tVars, pVars, shVars, bVars, cVars>>
    \/ NextCodegen /\ UNCHANGED <<tVars, pVars, shVars, bVars, lVars>>

SpecCompile == InitCompile /\ [][NextCompile]_vars

\* processEntryPoint runs on one thread until it returns: an iteration of
\* one of its loops that can be taken is taken.  The iteration of the while
\* loop can be taken exactly when toVisit is not empty, and it pops toVisit;
\* its weak fairness is written with that condition in the place of ENABLED.
ProcessBlockEnabled ==
    /\ l_pc = "process"
    /\ l_frames # <<>>
    /\ Head(l_frames).toVisit # <<>>

SpecCompileFair ==
    /\ InitCompile
    /\ [][NextCompile]_vars
    /\ WF_vars(CheckBackwardsJump /\ UNCHANGED <<tVars, pVars, shVars, bVars, cVars>>)
    /\ WF_vars(ReturnFromEntryPoint /\ UNCHANGED <<tVars, pVars, shVars, bVars, cVars>>)
    /\ ([]<>~ProcessBlockEnabled
        \/ []<><<ProcessBlock /\ UNCHANGED <<tVars, pVars, shVars, bVars, cVars>>>>_vars)

\* ---------------------------------------- stack-machine semantics of the ops
ApplyOp(s, o) ==
    CASE o.op = "swap" -> SwapAt(s, Len(s) - 1, Len(s) - 1 - o.n)
      [] o.op = "dup" -> Append(s, s[Len(s) + 1 - o.n])
      [] o.op = "push" -> Append(s, o.slot)
      [] OTHER -> Front(s)

OpDefined(s, o) ==
    CASE o.op = "swap" -> o.n >= 1 /\ o.n < Len(s)
      [] o.op = "dup" -> o.n >= 1 /\ o.n <= Len(s)
      [] o.op = "push" -> TRUE
      [] OTHER -> Len(s) >= 1

RECURSIVE Replay(_, _)
Replay(s, ops) ==
    IF ops = <<>> THEN <<"ok", s>>
    ELSE IF ~OpDefined(s, Head(ops)) THEN <<"stuck", s>>
    ELSE Replay(ApplyOp(s, Head(ops)), Tail(ops))

\* C1: when the shuffler returns, current equals target, replaying the
\* recorded callbacks on the initial stack yields target, and no assertion
\* failed.
C1_ShuffleReachesTarget ==
    /\ sh_pc # "assertFailed"
    /\ sh_pc = "returned" =>
        /\ sh_cur = sh_tgt
        /\ Replay(sh_init, sh_ops) = <<"ok", sh_tgt>>

C1_Witness ==
    /\ sh_pc = "returned"
    /\ Len(sh_ops) >= 4
    /\ \E i \in 1..Len(sh_ops) : sh_ops[i].op = "dup" /\ sh_ops[i].n >= 2
    /\ \E i \in 1..Len(sh_ops) : sh_ops[i].op = "swap"

\* C2: every run of the shuffler returns: the recursion of pop, dup, push
\* and swap frames does not go on forever.
C2_ShuffleTerminates == <>(sh_pc = "returned")

C2_Witness ==
    /\ sh_pc = "returned"
    /\ sh_init # sh_tgt
    /\ JunkSlot \in Range(sh_init)
    /\ \E i, j \in 1..Len(sh_tgt) : i # j /\ sh_tgt[i] = sh_tgt[j]

\* ------------------------------------------------------ claims on the builder
Operations(blocks) == UNION {Range(blocks[b].operations) : b \in 1..Len(blocks)}

\* The blocks some path of Jump / ConditionalJump exits leads to from S.
RECURSIVE C8_Closure(_, _)
C8_Closure(blocks, S) ==
    LET step == S \cup {b \in 1..Len(blocks) : \E a \in S :
                    \/ blocks[a].exit.t = "Jump" /\ blocks[a].exit.target = b
                    \/ blocks[a].exit.t = "ConditionalJump"
                        /\ b \in {blocks[a].exit.zero, blocks[a].exit.nonZero}}
    IN IF step = S THEN S ELSE C8_Closure(blocks, step)

C8_Reachable ==
    C8_Closure(dfg.blocks,
               {dfg.entry} \cup {dfg.functions[i].entry : i \in 1..Len(dfg.functions)})

\* C8: in the DFG build returns, every block listed in the entries of a block
\* reachable from the program entry or a function entry is itself reachable
\* from these roots.
C8_EntriesReachable ==
    b_pc = "built" =>
        \A B \in C8_Reachable :
            \A i \in 1..Len(dfg.blocks[B].entries) : dfg.blocks[B].entries[i] \in C8_Reachable

\* A block reachable only through a function entry lost the entry of an
\* unreachable predecessor.
C8_Witness ==
    /\ b_pc = "built"
    /\ \E B \in C8_Reachable \ C8_Closure(dfg.blocks, {dfg.entry}) :
            Len(dfg.blocks[B].entries) < Len(bld.blocks[B].entries)

C9_Returns(o) ==
    IF o.kind = "BuiltinCall" THEN Dialect[o.functionName].returns
    ELSE functionDeclsOf(source)[o.functionName].returns

\* C9: the output of every call operation is TemporarySlot(call, 0) ..
\* TemporarySlot(call, r - 1) for the r returns of the callee; the input of a
\* user function call has the return label of that call at the bottom and one
\* slot per argument above it.
C9_CallOperations ==
    \A o \in Operations(bld.blocks) :
        /\ o.kind \in {"BuiltinCall", "FunctionCall"} =>
            /\ Len(o.output) = C9_Returns(o)
            /\ \A i \in 1..Len(o.output) : o.output[i] = TemporarySlot(o.call.id, i - 1)
        /\ o.kind = "FunctionCall" =>
            /\ Len(o.input) = Len(o.call.arguments) + 1
            /\ o.input[1] = FunctionCallReturnLabelSlot(o.call.id)

\* A call of a user function with three arguments and two returns was built.
C9_Witness ==
    /\ b_pc = "built"
    /\ \E o \in Operations(dfg.blocks) :
            o.kind = "FunctionCall" /\ Len(o.output) = 2 /\ Len(o.input) = 4

C10_Slot(argument) ==
    CASE argument.t = "Literal" -> LiteralSlot(argument.value)
      [] argument.t = "Identifier" -> VariableSlot(argument.name)
      [] OTHER -> TemporarySlot(argument.id, 0)

\* the source indices (0-based) of the arguments passed on the stack
C10_Passed(o) ==
    SelectSeq([i \in 1..Len(o.call.arguments) |-> i - 1],
              LAMBDA idx : idx \notin Dialect[o.functionName].literalArguments)

\* C10: the input of a builtin call operation, bottom to top, is the call's
\* arguments in reverse source order without the arguments the builtin flags
\* as literal, and BuiltinCall.arguments is the length of the input.
C10_BuiltinInput ==
    \A o \in Operations(bld.blocks) :
        o.kind = "BuiltinCall" =>
            /\ Len(o.input) = Len(C10_Passed(o))
            /\ \A j \in 1..Len(o.input) :
                o.input[j] = C10_Slot(o.call.arguments[C10_Passed(o)[Len(o.input) + 1 - j] + 1])
            /\ o.arguments = Len(o.input)

\* A builtin call with a literal argument between two stack arguments and a
\* call with a nested call as argument were built.
C10_Witness ==
    /\ b_pc = "built"
    /\ \E o \in Operations(dfg.blocks) :
            o.functionName = "setimmutable" /\ o.input = <<VariableSlot(2), VariableSlot(1)>>
    /\ \E o \in Operations(dfg.blocks) : \E j \in 1..Len(o.input) :
            o.kind = "BuiltinCall" /\ o.input[j].k = "tmp"

\* the slots the code generator can push whenever it needs them
Regenerable(slot) == slot.k \in {"lit", "junk", "ret"}

Provides(stack, wanted) ==
    \A i \in 1..Len(wanted) : Regenerable(wanted[i]) \/ findOffset(stack, wanted[i]) >= 0

RECURSIVE C4_Through(_, _, _, _)
C4_Through(stack, operations, entries, exitLayout) ==
    IF operations = <<>> THEN Provides(stack, exitLayout)
    ELSE /\ Provides(stack, Head(entries))
         /\ C4_Through(DropLast(Head(entries), Len(Head(operations).input))
                            \o Head(operations).output,
                       Tail(operations), Tail(entries), exitLayout)

\* C4: after StackLayoutGenerator::run every reachable block has layouts,
\* and walking it from its entryLayout, every slot of the entry layout of an
\* operation that is no literal, junk or call return label is on the stack
\* the operations before it leave (their entry layout without their input,
\* with their output), and so is every such slot of the exitLayout on the
\* stack the last operation leaves.
C4_LayoutsConsistent ==
    l_pc = "done" =>
        \A B \in C8_Reachable :
            /\ m_layout[B].has
            /\ C4_Through(m_layout[B].entryLayout, dfg.blocks[B].operations,
                          m_layout[B].operationEntryLayout, m_layout[B].exitLayout)

C5_UpToJunk(entryLayout, exitLayout) ==
    /\ Len(entryLayout) = Len(exitLayout) - 1
    /\ \A i \in 1..Len(entryLayout) : entryLayout[i] \in {exitLayout[i], JunkSlot}

\* C5: once every entry point is stitched, the entryLayout of both
\* successors of every reachable block that ends in a ConditionalJump is as
\* long as the exitLayout of the block without its top, and holds at every
\* position the slot the exitLayout holds there or JunkSlot.
C5_SuccessorsAgree ==
    l_pc \in {"fix", "done"} =>
        \A B \in C8_Reachable :
            dfg.blocks[B].exit.t = "ConditionalJump" =>
                /\ C5_UpToJunk(m_layout[dfg.blocks[B].exit.nonZero].entryLayout,
                               m_layout[B].exitLayout)
                /\ C5_UpToJunk(m_layout[dfg.blocks[B].exit.zero].entryLayout,
                               m_layout[B].exitLayout)

\* A conditional jump was stitched whose successors differ: one of them got
\* JunkSlot where the other kept a variable of the exit layout.
C5_Witness ==
    /\ l_pc \in {"fix", "done"}
    /\ \E B \in C8_Reachable :
            /\ dfg.blocks[B].exit.t = "ConditionalJump"
            /\ \E i \in 1..(Len(m_layout[B].exitLayout) - 1) :
                    /\ m_layout[dfg.blocks[B].exit.zero].entryLayout[i] = JunkSlot
                    /\ m_layout[dfg.blocks[B].exit.nonZero].entryLayout[i].k = "var"

\* C3: every SWAPn and DUPn in the assembly has n <= 16, whatever put it
\* there: a swap or dup callback of the shuffler, the dup of the push
\* callback, or the dups ahead of the shuffle.
C3_SwapDupWithinReach ==
    \A k \in 1..Len(gen.m_assembly) :
        gen.m_assembly[k].i \in {"SWAP", "DUP"} => gen.m_assembly[k].n <= 16

C6_JumpRealisable(exitLayout, entryLayout) ==
    /\ Provides(exitLayout, entryLayout)
    /\ tryCreateStackLayout(exitLayout, entryLayout)

\* C6: in the layout run returns, for every reachable block that ends in a
\* Jump, every slot of the entryLayout of the target that is no literal,
\* junk or call return label is in the exitLayout of the block, and the
\* shuffle from the exitLayout to that entryLayout swaps and dups no deeper
\* than 16.
C6_JumpsRealisable ==
    l_pc = "done" =>
        \A B \in C8_Reachable :
            dfg.blocks[B].exit.t = "Jump" =>
                C6_JumpRealisable(m_layout[B].exitLayout,
                                  m_layout[dfg.blocks[B].exit.target].entryLayout)

C7_MayProduce(produced) ==
    \/ produced.slot.k \in {"lit", "ret", "junk"}
    \/ /\ produced.slot.k = "var"
       /\ produced.function # NoFunction
       /\ findOffset(functionInfoOf(dfg, produced.function).returnVariables, produced.slot) >= 0

\* C7: every slot the push callback has to produce because it is not on the
\* stack is a literal, the return label of a call, junk, or a return
\* variable of the function being generated.
C7_PushesOnlyRegenerable ==
    \A k \in 1..Len(gen.materialised) : C7_MayProduce(gen.materialised[k])

\* The blocks a path of ConditionalJump exits and of Jump exits that are not
\* backwards leads to from S.
RECURSIVE C11_Forward(_, _)
C11_Forward(blocks, S) ==
    LET step == S \cup {b \in 1..Len(blocks) : \E a \in S :
                    \/ /\ blocks[a].exit.t = "Jump"
                       /\ ~blocks[a].exit.backwards
                       /\ blocks[a].exit.target = b
                    \/ /\ blocks[a].exit.t = "ConditionalJump"
                       /\ b \in {blocks[a].exit.zero, blocks[a].exit.nonZero}}
    IN IF step = S THEN S ELSE C11_Forward(blocks, step)

\* operator()(ForLoop) makes loopCondition, loopBody, post and afterLoop in
\* this order.  T is the loopCondition of a loop: it jumps to the block made
\* after it if the condition holds and to the third block after it if not.
C11_LoopCondition(blocks, T) ==
    /\ T + 3 <= Len(blocks)
    /\ blocks[T].exit.t = "ConditionalJump"
    /\ blocks[T].exit.nonZero = T + 1
    /\ blocks[T].exit.zero = T + 3

\* T is the loopBody of a loop with a constant true condition: the
\* loopCondition made before it was never used.
C11_LoopBody(blocks, T) ==
    /\ T > 1
    /\ T + 2 <= Len(blocks)
    /\ blocks[T - 1] = BasicBlock

\* the jump at the end of B goes from the end of the post block of a loop
\* to the header of that loop
C11_BackEdge(blocks, B) ==
    LET T == blocks[B].exit.target
    IN \/ C11_LoopCondition(blocks, T) /\ B \in C11_Forward(blocks, {T + 2})
       \/ C11_LoopBody(blocks, T) /\ B \in C11_Forward(blocks, {T + 1})

C11_Backwards(blocks) ==
    {B \in 1..Len(blocks) : blocks[B].exit.t = "Jump" /\ blocks[B].exit.backwards}

\* C11: in the DFG build returns, every Jump with backwards = true goes from
\* the end of the post block of a loop to the loopCondition of that loop, or
\* to its loopBody if the condition is a constant that is not zero, and no
\* block is the target of two such jumps.
C11_BackwardsOnlyLoops ==
    b_pc = "built" =>
        /\ \A B \in C11_Backwards(dfg.blocks) : C11_BackEdge(dfg.blocks, B)
        /\ \A B1, B2 \in C11_Backwards(dfg.blocks) :
                dfg.blocks[B1].exit.target = dfg.blocks[B2].exit.target => B1 = B2

\* A graph was built with a loop that jumps back to its loopCondition, a
\* loop that jumps back to its loopBody, and jumps of break, continue and if
\* that are not backwards into blocks of the loop.
C11_Witness ==
    /\ b_pc = "built"
    /\ \E B \in C11_Backwards(dfg.blocks) :
            C11_LoopCondition(dfg.blocks, dfg.blocks[B].exit.target)
    /\ \E B \in C11_Backwards(dfg.blocks) :
            /\ C11_LoopBody(dfg.blocks, dfg.blocks[B].exit.target)
            /\ Len(dfg.blocks[dfg.blocks[B].exit.target + 1].entries) > 1
            /\ Len(dfg.blocks[dfg.blocks[B].exit.target + 2].entries) > 0

\* C12: a step of the code generator appends to the assembly for a block
\* only if the block was not generated before, and after the step the block
\* is generated and stays so; operator()(BasicBlock) on a generated block
\* leaves the assembly and the stack as they are.
C12_BlockEmittedOnce ==
    [][/\ c_pc # "idle" => gen.m_generated \subseteq gen'.m_generated
       /\ c_pc = "block" /\ c_block \in gen.m_generated =>
              /\ gen'.m_assembly = gen.m_assembly
              /\ gen'.m_stack = gen.m_stack
              /\ gen'.m_stagedBlocks = gen.m_stagedBlocks
       /\ c_pc = "block" /\ gen'.m_assembly # gen.m_assembly =>
              /\ c_block \notin gen.m_generated
              /\ c_block \in gen'.m_generated]_vars

\* operator()(BasicBlock) is about to run on a block that was generated
\* and that has a label and a jump to emit
C12_Witness ==
    /\ c_pc = "block"
    /\ c_block \in gen.m_generated
    /\ gen.error = ""
    /\ hasLabel(gen.m_blockLabels, c_block)
    /\ dfg.blocks[c_block].exit.t = "Jump"

\* the label tables of a generator as one set of <<table, key, label id>>
C13_Labels(cg) ==
    {<<"block", cg.m_blockLabels[i][1], cg.m_blockLabels[i][2]>> : i \in 1..Len(cg.m_blockLabels)}
    \cup {<<"function", cg.m_functionLabels[i][1], cg.m_functionLabels[i][2]>> :
              i \in 1..Len(cg.m_functionLabels)}
    \cup {<<"return", cg.m_returnLabels[i][1], cg.m_returnLabels[i][2]>> :
              i \in 1..Len(cg.m_returnLabels)}

\* no block, function or call site has two label ids, and no label id is
\* that of two of them
C13_Injective(cg) ==
    \A e1, e2 \in C13_Labels(cg) :
        (e1[3] = e2[3] \/ (e1[1] = e2[1] /\ e1[2] = e2[2])) => e1 = e2

\* appendLabel was called at most once with every label id
C13_AppendedOnce(cg) ==
    \A i, j \in 1..Len(cg.m_assembly) :
        (cg.m_assembly[i].i = "LABEL" /\ cg.m_assembly[j].i = "LABEL"
         /\ cg.m_assembly[i].n = cg.m_assembly[j].n) => i = j

\* C13: a label id assigned to a block, to a function or to the return
\* label of a call site stays assigned to it for the rest of the run, no two
\* of them share a label id, and every label id is appended to the assembly
\* at most once.
C13_LabelsStable ==
    /\ [](C13_Injective(gen) /\ C13_AppendedOnce(gen))
    /\ [][c_pc # "idle" => C13_Labels(gen) \subseteq C13_Labels(gen')]_vars

\* a run came to its end with labels of two blocks, of a function and of a
\* call site, all of them appended
C13_Witness ==
    /\ c_pc = "done"
    /\ Len(gen.m_blockLabels) > 1
    /\ gen.m_functionLabels # <<>>
    /\ gen.m_returnLabels # <<>>
    /\ \A e \in C13_Labels(gen) :
           \E i \in 1..Len(gen.m_assembly) :
               gen.m_assembly[i].i = "LABEL" /\ gen.m_assembly[i].n = e[3]

\* The assembly a step appended is read back against the block: r.m_stack
\* is the stack the items before made, r.k the operation that is due,
\* r.pushed the number of slots pushed so far, r.exits the number of items
\* of the exit.  An assignment appends nothing: it is due, and done, when
\* the stack is its entry layout.
RECURSIVE C14_Settle(_, _, _)
C14_Settle(r, operations, entries) ==
    IF r.k <= Len(operations) /\ operations[r.k].kind = "Assignment"
       /\ r.m_stack = entries[r.k]
    THEN C14_Settle([generateAssignment(r, operations[r.k]) EXCEPT !.k = @ + 1],
                    operations, entries)
    ELSE r

\* the operation due is the one the item is the code of, and the stack is
\* its entry layout
C14_Due(r, item, operations, entries) ==
    /\ r.exits = 0
    /\ r.k <= Len(operations)
    /\ operations[r.k].kind = (IF item.i = "BUILTIN" THEN "BuiltinCall" ELSE "FunctionCall")
    /\ operations[r.k].functionName = item.name
    /\ r.m_stack = entries[r.k]

C14_Item(r, item, g, operations, pushes) ==
    CASE item.i = "SWAP" ->
            IF item.n < Len(r.m_stack)
            THEN [r EXCEPT !.m_stack = ApplyOp(@, SwapOp(item.n))]
            ELSE [r EXCEPT !.ok = FALSE]
      [] item.i = "DUP" ->
            IF item.n <= Len(r.m_stack)
            THEN [r EXCEPT !.m_stack = ApplyOp(@, DupOp(item.n))]
            ELSE [r EXCEPT !.ok = FALSE]
      [] item.i = "POP" ->
            IF r.m_stack # <<>> THEN [r EXCEPT !.m_stack = Front(@)]
            ELSE [r EXCEPT !.ok = FALSE]
      [] item.i \in {"PUSH", "PUSHLABEL", "CALLDATASIZE"} ->
            IF r.pushed < Len(pushes)
            THEN [r EXCEPT !.m_stack = Append(@, pushes[r.pushed + 1].slot), !.pushed = @ + 1]
            ELSE [r EXCEPT !.ok = FALSE]
      [] item.i = "BUILTIN" ->
            [popAndReturn(r, operations[r.k].arguments, operations[r.k].call,
                          Dialect[item.name].returns) EXCEPT !.k = @ + 1]
      [] item.i = "JUMPTO" /\ item.name # "" ->
            [popAndReturn(r, g.functionDecls[item.name].arguments + 1, operations[r.k].call,
                          g.functionDecls[item.name].returns) EXCEPT !.k = @ + 1]
      [] item.i = "LABEL" -> r
      [] item.i = "JUMPTOIF" ->
            [r EXCEPT !.m_stack = Front(@), !.exits = @ + 1, !.ok = @ /\ r.k > Len(operations)]
      [] OTHER -> [r EXCEPT !.exits = @ + 1, !.ok = @ /\ r.k > Len(operations)]

RECURSIVE C14_Read(_, _, _, _, _, _)
C14_Read(r, items, g, operations, entries, pushes) ==
    IF items = <<>> \/ ~r.ok THEN r
    ELSE IF (Head(items).i = "BUILTIN" \/ (Head(items).i = "JUMPTO" /\ Head(items).name # ""))
            /\ ~C14_Due(r, Head(items), operations, entries)
    THEN [r EXCEPT !.ok = FALSE]
    ELSE C14_Read(C14_Settle(C14_Item(r, Head(items), g, operations, pushes),
                             operations, entries),
                  Tail(items), g, operations, entries, pushes)

C14_ReadBlock(before, after, g, layout, block) ==
    C14_Read(C14_Settle([m_stack |-> before.m_stack, k |-> 1, pushed |-> 0, exits |-> 0,
                         ok |-> TRUE],
                        g.blocks[block].operations, layout[block].operationEntryLayout),
             Drop(after.m_assembly, Len(before.m_assembly)),
             g, g.blocks[block].operations, layout[block].operationEntryLayout,
             Drop(after.materialised, Len(before.materialised)))

\* C14: the assembly appended when a block is generated has the code of
\* the operations of the block in their order, each one once and each one
\* at a stack that is its entry layout, and the items of the exit come after
\* the code of the last operation.
C14_OperationsInOrder ==
    [][(c_pc = "block" /\ c_block \notin gen.m_generated /\ gen'.error = "") =>
          LET r == C14_ReadBlock(gen, gen', dfg, m_layout, c_block)
          IN /\ r.ok
             /\ r.k = Len(dfg.blocks[c_block].operations) + 1
             /\ dfg.blocks[c_block].exit.t \in {"MainExit", "ConditionalJump", "FunctionReturn"}
                    => r.exits > 0
             /\ dfg.blocks[c_block].exit.t = "Jump" /\ c_block' = 0 => r.exits > 0]_vars

\* a block with a call of a function, a call of a builtin and an assignment
\* was generated
C14_Witness ==
    /\ gen.error = ""
    /\ \E block \in gen.m_generated :
           /\ Len(dfg.blocks[block].operations) > 2
           /\ \A kind \in {"FunctionCall", "BuiltinCall", "Assignment"} :
                  \E i \in 1..Len(dfg.blocks[block].operations) :
                      dfg.blocks[block].operations[i].kind = kind

\* the candidate set of combineStack(a, b), in the order the code collects it
C15_Candidates(a, b) ==
    eraseRegenerable(appendUnique(appendUnique(<<>>, Drop(a, Len(commonPrefix(a, b)))),
                                  Drop(b, Len(commonPrefix(a, b)))))

C15_Perms(s) == {[i \in 1..Len(s) |-> s[f[i]]] : f \in Permutations(1..Len(s))}

\* combineStack(a, b) is the common prefix of a and b followed by a
\* permutation of the candidate set that no permutation is cheaper than
C15_Minimal(a, b) ==
    Let(Len(commonPrefix(a, b)), LAMBDA n :
    Let(combineStack(a, b).stack, LAMBDA combined :
        /\ Take(combined, n) = commonPrefix(a, b)
        /\ Drop(combined, n) \in C15_Perms(C15_Candidates(a, b))
        /\ \A q \in C15_Perms(C15_Candidates(a, b)) :
               evaluate(Drop(combined, n), Drop(a, n), Drop(b, n))
                   <= evaluate(q, Drop(a, n), Drop(b, n))))

\* processEntryPoint is about to call combineStack for the block at the
\* front of toVisit, a conditional jump whose successors were visited
C15_Call ==
    /\ l_pc = "process"
    /\ l_frames # <<>>
    /\ Head(l_frames).toVisit # <<>>
    /\ Head(Head(l_frames).toVisit) \notin Head(l_frames).visited
    /\ dfg.blocks[Head(Head(l_frames).toVisit)].exit.t = "ConditionalJump"
    /\ dfg.blocks[Head(Head(l_frames).toVisit)].exit.zero \in Head(l_frames).visited
    /\ dfg.blocks[Head(Head(l_frames).toVisit)].exit.nonZero \in Head(l_frames).visited

C15_Zero == m_layout[dfg.blocks[Head(Head(l_frames).toVisit)].exit.zero].entryLayout
C15_NonZero == m_layout[dfg.blocks[Head(Head(l_frames).toVisit)].exit.nonZero].entryLayout

\* C15: for the layouts a and b, not empty, that processEntryPoint combines,
\* combineStack(a, b) is the common prefix of a and b followed by a
\* permutation of the candidate set whose cost (the swaps and dups of the
\* shuffler to the rest of a and to the rest of b, 1000 more for each one
\* deeper than 16) is the least among all permutations of the candidate set.
C15_CombineMinimal ==
    (C15_Call /\ C15_Zero # <<>> /\ C15_NonZero # <<>>) => C15_Minimal(C15_Zero, C15_NonZero)

\* C16: every run of processEntryPoint ends: toVisit gets empty, the
\* activations that back-edges start return, and StackLayoutGenerator::run
\* goes on to stitchConditionalJumps (or an assertion stops the pass).
C16_ProcessEntryPointTerminates ==
    (l_pc = "process") ~> (l_pc \in {"stitch", "failed"})

\* an activation of processEntryPoint that a back-edge started has emptied
\* its toVisit and checked its own back-edges
C16_Witness ==
    /\ l_pc = "process"
    /\ Len(l_frames) > 1
    /\ Head(l_frames).toVisit = <<>>
    /\ Head(l_frames).backwardsJumps # <<>>
    /\ Head(l_frames).checked = Len(Head(l_frames).backwardsJumps)

\* the dry run of fixStackTooDeep over a block from operation index on:
\* no shuffle into the entry layout of an operation or into the exit
\* layout has a slot it cannot reach
RECURSIVE C18_DryRun(_, _, _, _, _)
C18_DryRun(operations, entries, index, stack, exitLayout) ==
    IF index > Len(operations) THEN unreachableSlots(stack, exitLayout) = <<>>
    ELSE /\ unreachableSlots(stack, entries[index]) = <<>>
         /\ C18_DryRun(operations, entries, index + 1,
                       afterOperation(entries[index], operations[index]), exitLayout)

C18_Clean(g, layout, block) ==
    C18_DryRun(g.blocks[block].operations, layout[block].operationEntryLayout, 1,
               layout[block].entryLayout, layout[block].exitLayout)

\* C18: after fixStackTooDeep the dry run of every block it processed, from
\* the entry layout of the block through the entry layout of each operation
\* to the exit layout, finds no slot deeper than 16.
C18_BlocksClean ==
    l_pc = "done" =>
        \A block \in 1..Len(dfg.blocks) : m_layout[block].has => C18_Clean(dfg, m_layout, block)

\* the shuffle of a Jump exit into the entry layout of its target reaches
\* every slot
C17_JumpClean(g, layout, block) ==
    (g.blocks[block].exit.t = "Jump" /\ layout[g.blocks[block].exit.target].has) =>
        unreachableSlots(layout[block].exitLayout,
                         layout[g.blocks[block].exit.target].entryLayout) = <<>>

\* StackLayoutGenerator::run has returned a layout in which a shuffle
\* inside a block or at a jump still has a slot deeper than 16
C17_Unrepaired ==
    /\ l_pc = "done"
    /\ \E block \in 1..Len(dfg.blocks) :
           /\ m_layout[block].has
           /\ ~(C18_Clean(dfg, m_layout, block) /\ C17_JumpClean(dfg, m_layout, block))

\* C17: when fixStackTooDeep leaves a stack access deeper than 16, the
\* code generator does not run to its end (StackTooDeep is reported) and
\* appends no SWAP or DUP deeper than 16.
C17_StackTooDeepReported ==
    C17_Unrepaired =>
        /\ c_pc # "done"
        /\ \A i \in 1..Len(gen.m_assembly) :
               gen.m_assembly[i].i \in {"SWAP", "DUP"} => gen.m_assembly[i].n <= 16

\* the entry and exit layouts of all blocks
C19_Layouts(layout) ==
    [b \in 1..Len(layout) |-> <<layout[b].entryLayout, layout[b].exitLayout>>]

\* C19: once stitchConditionalJumps has run from every entry point, running
\* it again from any of them succeeds and leaves the entry layout and the
\* exit layout of every block as they are.
C19_StitchIdempotent ==
    (l_pc = "fix" /\ l_roots = entryPoints(dfg)) =>
        \A i \in 1..Len(l_roots) :
            Let(stitchConditionalJumps(dfg, m_layout, <<l_roots[i]>>, {}), LAMBDA again :
                again.ok /\ C19_Layouts(again.layout) = C19_Layouts(m_layout))

\* stitchConditionalJumps has run and has put junk into the entry layout of
\* a successor of a conditional jump, in the place of a slot of the exit
\* layout that is not junk
C19_Witness ==
    /\ l_pc = "fix"
    /\ l_roots = entryPoints(dfg)
    /\ \E b \in 1..Len(dfg.blocks) :
           /\ m_layout[b].has
           /\ dfg.blocks[b].exit.t = "ConditionalJump"
           /\ \E i \in 1..Len(m_layout[b].exitLayout) - 1 :
                  /\ m_layout[b].exitLayout[i] # JunkSlot
                  /\ m_layout[dfg.blocks[b].exit.zero].entryLayout[i] = JunkSlot

\* C20: when the shuffler is called with a target equal to the current
\* stack, it calls none of the swap, dup, push and pop callbacks, fails no
\* assertion, and the stack stays what it was.
C20_ShuffleToItself ==
    sh_init = sh_tgt =>
        /\ sh_ops = <<>>
        /\ sh_cur = sh_init
        /\ sh_pc \in {"call", "returned"}

\* the shuffler has returned from a call with a full-length stack, holding a
\* duplicate and junk, as both arguments
C20_Witness ==
    /\ sh_pc = "returned"
    /\ sh_rec
    /\ sh_init = sh_tgt
    /\ Len(sh_init) = MaxLen
    /\ \E i, j \in 1..Len(sh_init) : i # j /\ sh_init[i] = sh_init[j]
    /\ \E i \in 1..Len(sh_init) : sh_init[i] = JunkSlot

\* the stack propagateStackThroughOperation got for the operation at index
\* of block: what it returned for the next operation, or the exit layout
C21_Post(block, index) ==
    IF index = Len(m_layout[block].operationEntryLayout) THEN m_layout[block].exitLayout
    ELSE clamp(compress(m_layout[block].operationEntryLayout[index + 1]))

\* the first occurrence of every slot of stack that is neither a literal,
\* nor junk, nor a call return label, in the order of stack
C21_FirstOccurrences(stack) ==
    Let(SelectSeq([i \in 1..Len(stack) |-> i],
                  LAMBDA i : /\ stack[i].k \notin {"lit", "junk", "ret"}
                             /\ \A j \in 1..(i - 1) : stack[j] # stack[i]),
        LAMBDA kept : [k \in 1..Len(kept) |-> stack[kept[k]]])

\* C21: for every operation of a block the layout generator has processed,
\* when the compressed entry layout of the operation has more than 12
\* slots, propagateStackThroughOperation returns the first occurrence of
\* each slot that is no literal, no junk and no call return label, in the
\* original order; the entry layout of the block is what it returned for
\* the first operation.
C21_WidthClamp ==
    l_pc = "process" =>
        \A block \in 1..Len(m_layout) : m_layout[block].has =>
            \A index \in 1..Len(m_layout[block].operationEntryLayout) :
                Let(propagateStackThroughOperation(C21_Post(block, index),
                                                   dfg.blocks[block].operations[index]),
                    LAMBDA p :
                        /\ p.entry = m_layout[block].operationEntryLayout[index]
                        /\ Len(compress(p.entry)) > 12 =>
                               /\ p.stack = C21_FirstOccurrences(compress(p.entry))
                               /\ index = 1 => m_layout[block].entryLayout = p.stack)

\* the compressed entry layouts of the operations of the first block
C21_Wide ==
    {compress(m_layout[1].operationEntryLayout[index]) :
        index \in 1..Len(m_layout[1].operationEntryLayout)}

\* a program with operations whose compressed entry layouts have more than
\* 12 slots: one with a literal among them, one with a call return label
\* and a slot twice
C21_Witness ==
    /\ l_pc = "process"
    /\ m_layout[1].has
    /\ \E c \in C21_Wide : Len(c) > 12 /\ \E i \in 1..Len(c) : c[i].k = "lit"
    /\ \E c \in C21_Wide :
           /\ Len(c) > 12
           /\ \E i \in 1..Len(c) : c[i].k = "ret"
           /\ \E i, j \in 1..Len(c) : i < j /\ c[i] = c[j]

\* "We can always push literals, junk and function call return labels."
C22_Regenerable(slot) == slot.k \in {"lit", "junk", "ret"}

\* passed is entry without a maximal run of top slots that are regenerable
\* or occur deeper in entry
C22_Compressed(entry, passed) ==
    /\ Len(passed) <= Len(entry)
    /\ passed = SubSeq(entry, 1, Len(passed))
    /\ \A i \in (Len(passed) + 1)..Len(entry) :
           C22_Regenerable(entry[i]) \/ \E j \in 1..(i - 1) : entry[j] = entry[i]
    /\ passed # <<>> =>
           /\ ~C22_Regenerable(Last(passed))
           /\ \A j \in 1..(Len(passed) - 1) : passed[j] # Last(passed)
    /\ \A i \in 1..Len(entry) :
           ~C22_Regenerable(entry[i]) => \E j \in 1..Len(passed) : passed[j] = entry[i]

\* C22: for every operation of a block the layout generator has processed,
\* the stack propagateStackThroughOperation goes on with after the loop
\* that pops from the top is the recorded operation entry layout without a
\* maximal run of top slots that are literals, junk, call return labels or
\* copies of deeper slots; it is empty or its top is none of these, and it
\* still holds every slot that is not regenerable.  The stack returned is
\* the width clamp of it.
C22_Compression ==
    l_pc = "process" =>
        \A block \in 1..Len(m_layout) : m_layout[block].has =>
            \A index \in 1..Len(m_layout[block].operationEntryLayout) :
                Let(propagateStackThroughOperation(C21_Post(block, index),
                                                   dfg.blocks[block].operations[index]),
                    LAMBDA p :
                        /\ p.entry = m_layout[block].operationEntryLayout[index]
                        /\ C22_Compressed(p.entry, compress(p.entry))
                        /\ p.stack = clamp(compress(p.entry))
                        /\ Len(compress(p.entry)) <= 12 => p.stack = compress(p.entry)
                        /\ p.popped = (compress(p.entry) # p.entry))

\* an operation whose entry layout loses a literal and a copy of a deeper
\* slot from its top and keeps slots below them
C22_Witness ==
    /\ l_pc = "process"
    /\ \E block \in 1..Len(m_layout) :
           /\ m_layout[block].has
           /\ \E index \in 1..Len(m_layout[block].operationEntryLayout) :
                  Let(m_layout[block].operationEntryLayout[index], LAMBDA entry :
                      /\ compress(entry) # <<>>
                      /\ Len(compress(entry)) + 2 <= Len(entry)
                      /\ \E i \in (Len(compress(entry)) + 1)..Len(entry) : entry[i].k = "lit"
                      /\ \E i \in (Len(compress(entry)) + 1)..Len(entry) :
                             entry[i].k = "var" /\ \E j \in 1..(i - 1) : entry[j] = entry[i])

\* no slot of entry below the input of the assignment is one of the
\* variables the assignment assigns
C23_NoAssigned(entry, operation) ==
    \A i \in 1..(Len(entry) - Len(operation.input)) :
        ~(entry[i].k = "var" /\ findOffset(operation.variables, entry[i]) >= 0)

\* the same for every assignment of every block, while run is at one of pcs
C23_Assignments(pcs) ==
    l_pc \in pcs =>
        \A block \in 1..Len(m_layout) : m_layout[block].has =>
            \A index \in 1..Len(m_layout[block].operationEntryLayout) :
                dfg.blocks[block].operations[index].kind = "Assignment" =>
                    C23_NoAssigned(m_layout[block].operationEntryLayout[index],
                                   dfg.blocks[block].operations[index])

\* C23: in the layout StackLayoutGenerator::run leaves, the entry layout of
\* an assignment holds none of the assigned variables below the input of
\* the assignment.
C23_AssignedAreJunk == C23_Assignments({"done"})

\* the same while the blocks are processed and stitched, before
\* fixStackTooDeep
C23_AssignedAreJunkBeforeFix == C23_Assignments({"process", "stitch"})

\* the number of unconditional jumps to block labels in an assembly (the
\* jump into a function carries the name of the function)
C24_Jumps(assembly) ==
    Len(SelectSeq(assembly, LAMBDA item : item.i = "JUMPTO" /\ item.name = ""))

\* operator()(BasicBlock) is called for a block that is not generated yet
\* and exits with a jump
C24_AtJump ==
    /\ c_pc = "block"
    /\ c_block \notin gen.m_generated
    /\ m_layout[c_block].has
    /\ dfg.blocks[c_block].exit.t = "Jump"

\* the jump target has no label yet and exactly one predecessor
C24_Inline ==
    /\ ~hasLabel(gen.m_blockLabels, dfg.blocks[c_block].exit.target)
    /\ Len(dfg.blocks[dfg.blocks[c_block].exit.target].entries) = 1

\* what the call leaves when the target is emitted in place: no jump, no
\* label and nothing staged, and the target is generated next
C24_InPlace(target) ==
    /\ c_block' = target
    /\ c_pc' = "block"
    /\ target \notin gen'.m_generated
    /\ C24_Jumps(gen'.m_assembly) = C24_Jumps(gen.m_assembly)
    /\ gen'.m_blockLabels = gen.m_blockLabels
    /\ gen'.m_stagedBlocks = gen.m_stagedBlocks

\* what the call leaves when the target is jumped to: a label the target
\* had is kept, a new one is the last label allocated
C24_Jumped(target) ==
    /\ c_block' = 0
    /\ c_pc' = c_ret
    /\ hasLabel(gen'.m_blockLabels, target)
    /\ gen'.m_blockLabels =
           IF hasLabel(gen.m_blockLabels, target) THEN gen.m_blockLabels
           ELSE Append(gen.m_blockLabels, <<target, gen'.labels>>)
    /\ gen'.m_assembly # <<>>
    /\ Last(gen'.m_assembly) = Item("JUMPTO", labelOf(gen'.m_blockLabels, target), "")
    /\ C24_Jumps(gen'.m_assembly) = C24_Jumps(gen.m_assembly) + 1
    /\ gen'.m_stagedBlocks =
           IF target \in gen.m_generated \cup {c_block} THEN gen.m_stagedBlocks
           ELSE Append(gen.m_stagedBlocks, target)

\* C24: when a block that exits with Jump(target) is generated, the model
\* stack is brought to the entry layout of target; the target is generated
\* in place, with no jump and no label, exactly when it has no label yet
\* and exactly one predecessor; otherwise target gets a label if it has
\* none, a jump to that label is appended last, and target is staged
\* exactly if it is not generated yet.  The check of the stack before the
\* jump never fails.
C24_JumpExit ==
    [][C24_AtJump =>
           /\ gen'.error # "m_stack == entryLayout of the jump target"
           /\ gen'.error = "" =>
                  /\ gen'.m_stack = m_layout[dfg.blocks[c_block].exit.target].entryLayout
                  /\ IF C24_Inline THEN C24_InPlace(dfg.blocks[c_block].exit.target)
                     ELSE C24_Jumped(dfg.blocks[c_block].exit.target)]_vars

\* a block has been emitted in place after a jump exit, and another jump
\* exit has appended a jump to a block that had a label and was generated
\* and one to a block that was staged for it
C24_Witness ==
    /\ c_pc = "done"
    /\ gen.error = ""
    /\ \E b \in 1..Len(dfg.blocks) :
           /\ dfg.blocks[b].exit.t = "Jump"
           /\ b \in gen.m_generated
           /\ ~hasLabel(gen.m_blockLabels, dfg.blocks[b].exit.target)
    /\ \E b \in 1..Len(dfg.blocks) :
           /\ dfg.blocks[b].exit.t = "Jump"
           /\ b \in gen.m_generated
           /\ hasLabel(gen.m_blockLabels, dfg.blocks[b].exit.target)
           /\ Len(dfg.blocks[dfg.blocks[b].exit.target].entries) > 1

\* one constant push per slot of a stack of literals, bottom first
C25_Pushes(input) == [i \in 1..Len(input) |-> Item("PUSH", input[i].a, "")]

\* the same with a DUP of the nearest copy in the place of the push of a
\* literal that is on the stack already
C25_PushesAndDups(input) ==
    [i \in 1..Len(input) |->
        IF \E j \in 1..(i - 1) : input[j] = input[i]
        THEN Item("DUP", i - MaxOf({j \in 1..(i - 1) : input[j] = input[i]}), "")
        ELSE Item("PUSH", input[i].a, "")]

\* the first operation of the program is a call of a builtin whose stack
\* arguments are all literals, and its entry layout is its input alone
C25_LiteralCall ==
    /\ dfg.entry \in gen.m_generated
    /\ gen.error = ""
    /\ m_layout[dfg.entry].has
    /\ dfg.blocks[dfg.entry].operations # <<>>
    /\ Let(dfg.blocks[dfg.entry].operations[1], LAMBDA operation :
           /\ operation.kind = "BuiltinCall"
           /\ \A i \in 1..Len(operation.input) : operation.input[i].k = "lit"
           /\ m_layout[dfg.entry].operationEntryLayout[1] = operation.input)

\* the stream starts with items for the arguments and the builtin, and the
\* stream of a store of two literals is items, the store and the halt
C25_Stream(items(_)) ==
    C25_LiteralCall =>
        Let(dfg.blocks[dfg.entry].operations[1], LAMBDA operation :
            /\ Len(gen.m_assembly) > Len(operation.input)
            /\ SubSeq(gen.m_assembly, 1, Len(operation.input) + 1) =
                   Append(items(operation.input),
                          Item("BUILTIN", 0, operation.functionName))
            /\ source \in LiteralStores /\ c_pc = "done" =>
                   gen.m_assembly =
                       items(operation.input) \o
                       <<Item("BUILTIN", 0, "sstore"), Item("STOP", 0, "")>>)

C26_Count(assembly, kind) == Len(SelectSeq(assembly, LAMBDA item : item.i = kind))

\* C26: the stream of let x := value  let y := add(x, x)  sstore(address, y)
\* is the push of value, one DUP1 that supplies the second x, add, the push
\* of address, sstore and the halt: x is pushed once, there is one DUP, no
\* SWAP and no POP.
C26_OneDup ==
    \A value, address \in {0, 7} :
        source = E_dupOf(value, address) /\ c_pc \in {"done", "failed"} =>
            /\ c_pc = "done"
            /\ gen.m_assembly =
                   << Item("PUSH", value, ""), Item("DUP", 1, ""), Item("BUILTIN", 0, "add"),
                      Item("PUSH", address, ""), Item("BUILTIN", 0, "sstore"),
                      Item("STOP", 0, "") >>
            /\ C26_Count(gen.m_assembly, "DUP") = 1
            /\ C26_Count(gen.m_assembly, "SWAP") = 0
            /\ C26_Count(gen.m_assembly, "POP") = 0
            /\ Len(SelectSeq(gen.m_assembly,
                             LAMBDA item : item.i = "PUSH" /\ item.n = value)) =
                   IF value = address THEN 2 ELSE 1

\* the code of let x := 7  let y := add(x, x)  sstore(0, y) is generated
C26_Witness ==
    /\ source = E_dup
    /\ c_pc = "done"
    /\ C26_Count(gen.m_assembly, "DUP") = 1

\* the position of the first item of a kind in an assembly, 0 if there is none
C27_First(assembly, kind) ==
    IF \E i \in 1..Len(assembly) : assembly[i].i = kind
    THEN CHOOSE i \in 1..Len(assembly) :
             assembly[i].i = kind /\ \A j \in 1..(i - 1) : assembly[j].i # kind
    ELSE 0

\* the items that bring the arguments of sstore(address, value) on an empty stack
C27_Arguments(address, value) ==
    C25_PushesAndDups(<<LiteralSlot(value), LiteralSlot(address)>>)

\* the code of the condition: it ends with lt and has no jump, label or halt
C27_Condition(code) ==
    /\ code # <<>>
    /\ Last(code) = Item("BUILTIN", 0, "lt")
    /\ \A i \in 1..Len(code) : code[i].i \in {"PUSH", "DUP", "SWAP", "POP", "BUILTIN"}

\* C27 as stated: in the stream of if lt(a, b) { sstore(address, value) }
\* the conditional jump comes after the condition, the store of the body
\* after the conditional jump, the label of the fall-through block after
\* the store, and the halt is the last item.
C27_ThenBodyBeforeHalt ==
    source \in ConditionalStores /\ c_pc \in {"done", "failed"} =>
        /\ c_pc = "done"
        /\ C27_First(gen.m_assembly, "JUMPTOIF") > 1
        /\ C27_Condition(SubSeq(gen.m_assembly, 1, C27_First(gen.m_assembly, "JUMPTOIF") - 1))
        /\ \E store, fallThrough \in 1..Len(gen.m_assembly) :
               /\ C27_First(gen.m_assembly, "JUMPTOIF") < store
               /\ gen.m_assembly[store] = Item("BUILTIN", 0, "sstore")
               /\ store < fallThrough
               /\ gen.m_assembly[fallThrough].i = "LABEL"
               /\ gen.m_assembly[fallThrough].n # gen.m_assembly[C27_First(gen.m_assembly, "JUMPTOIF")].n
        /\ Last(gen.m_assembly) = Item("STOP", 0, "")

\* C27: the stream of if lt(a, b) { sstore(address, value) } is the code of
\* the condition, the conditional jump to the label of the body, the label
\* of the fall-through block, the halt, and after the halt the label of
\* the body, the body and a jump back to the label of the fall-through
\* block, which is the last item.
C27_BranchOrder ==
    \A address, value \in {0, 1} :
        source = E_ifOf(address, value) /\ c_pc \in {"done", "failed"} =>
            /\ c_pc = "done"
            /\ C27_First(gen.m_assembly, "JUMPTOIF") > 1
            /\ Let(C27_First(gen.m_assembly, "JUMPTOIF"), LAMBDA at :
                   /\ C27_Condition(SubSeq(gen.m_assembly, 1, at - 1))
                   /\ SubSeq(gen.m_assembly, at, Len(gen.m_assembly)) =
                          << Item("JUMPTOIF", 1, ""), Item("LABEL", 2, ""), Item("STOP", 0, ""),
                             Item("LABEL", 1, "") >>
                          \o C27_Arguments(address, value)
                          \o << Item("BUILTIN", 0, "sstore"), Item("JUMPTO", 2, "") >>)
            /\ labelOf(gen.m_blockLabels, dfg.blocks[dfg.entry].exit.nonZero) = 1
            /\ labelOf(gen.m_blockLabels, dfg.blocks[dfg.entry].exit.zero) = 2

\* the code of if lt(a, b) { sstore(0, 1) } is generated
C27_Witness ==
    /\ source = E_if
    /\ c_pc = "done"
    /\ dfg.blocks[dfg.entry].exit.t = "ConditionalJump"
    /\ C27_First(gen.m_assembly, "JUMPTOIF") > 0

\* operator()(BasicBlock) is called for a block that is generated now
C28_Generating ==
    /\ c_pc = "block"
    /\ c_block \notin gen.m_generated
    /\ m_layout[c_block].has
    /\ gen.m_stack = m_layout[c_block].entryLayout

\* the generator when it has brought the stack to the entry layout of the
\* operation index of the block and is about to visit the operation
C28_Before(index) ==
    generatorCreateStackLayout(
        generateOperations(appendBlockLabel([gen EXCEPT !.m_generated = @ \cup {c_block}], c_block),
                           dfg,
                           SubSeq(dfg.blocks[c_block].operations, 1, index - 1),
                           SubSeq(m_layout[c_block].operationEntryLayout, 1, index - 1)),
        dfg, m_layout[c_block].operationEntryLayout[index])

\* the call protocol from before, the generator about to visit the call
\* operation, to after, the generator when the visit has returned
C28_Call(before, after, operation) ==
    Let(dfg.functionDecls[operation.functionName].arguments, LAMBDA arguments :
        /\ hasLabel(before.m_returnLabels, operation.call.id)
        /\ \E i \in 1..Len(before.m_assembly) :
               before.m_assembly[i] =
                   Item("PUSHLABEL", labelOf(before.m_returnLabels, operation.call.id), "")
        /\ Len(before.m_stack) > arguments
        /\ before.m_stack[Len(before.m_stack) - arguments] =
               FunctionCallReturnLabelSlot(operation.call.id)
        /\ hasLabel(after.m_functionLabels, operation.functionName)
        /\ after.m_assembly =
               before.m_assembly \o
               << Item("JUMPTO", labelOf(after.m_functionLabels, operation.functionName),
                       operation.functionName),
                  Item("LABEL", labelOf(before.m_returnLabels, operation.call.id), "") >>
        /\ after.m_stack =
               DropLast(before.m_stack, arguments + 1) \o
               [i \in 1..dfg.functionDecls[operation.functionName].returns |->
                    TemporarySlot(operation.call.id, i - 1)])

\* every call of a user function of the block follows the protocol
C28_Calls ==
    \A index \in 1..Len(dfg.blocks[c_block].operations) :
        dfg.blocks[c_block].operations[index].kind = "FunctionCall" =>
            Let(C28_Before(index), LAMBDA before :
                before.error = "" =>
                    Let(generateOperation(before, dfg, dfg.blocks[c_block].operations[index]),
                        LAMBDA after :
                            /\ after.error = ""
                            /\ C28_Call(before, after, dfg.blocks[c_block].operations[index])))

\* the generator when it has brought the stack to the stack of the function
\* return exit of the block
C28_BeforeReturn ==
    generatorCreateStackLayout(
        generatorCreateStackLayout(
            generateOperations(appendBlockLabel([gen EXCEPT !.m_generated = @ \cup {c_block}],
                                                c_block),
                               dfg, dfg.blocks[c_block].operations,
                               m_layout[c_block].operationEntryLayout),
            dfg, m_layout[c_block].exitLayout),
        dfg,
        Append(functionInfoOf(dfg, gen.m_currentFunctionInfo).returnVariables,
               FunctionReturnLabelSlot))

\* the exit of a block that returns from the function being generated
C28_Return ==
    dfg.blocks[c_block].exit.t = "FunctionReturn" /\ gen.m_currentFunctionInfo # NoFunction =>
        Let(C28_BeforeReturn, LAMBDA before :
            before.error = "" =>
                /\ gen'.error = ""
                /\ before.m_stack =
                       Append(functionInfoOf(dfg, gen.m_currentFunctionInfo).returnVariables,
                              FunctionReturnLabelSlot)
                /\ gen'.m_assembly = Append(before.m_assembly, Item("JUMP", 0, ""))
                /\ gen'.m_stack = <<>>)

\* C28: at every call of a user function the reference to the return label
\* of the call has been pushed before the jump into the function is
\* appended, the slot below the arguments is the return label slot of the
\* call, the return label is appended directly after the jump, and the
\* model stack loses the arguments and the return label slot and gets the
\* temporaries 0..r-1 of the call on top.  At a FunctionReturn exit the
\* model stack is the return variables and the return label when the jump
\* out of the function is appended, and it is empty afterwards.
C28_CallProtocol == [][C28_Generating => C28_Calls /\ C28_Return]_vars

\* the code of function f() -> a, b { a := 1 b := 2 }  let x, y := f() is
\* generated: the call with its return label, and the return of f last
C28_Witness ==
    /\ source = E_call
    /\ c_pc = "done"
    /\ gen.error = ""
    /\ \E i \in 1..(Len(gen.m_assembly) - 1) :
           /\ gen.m_assembly[i].i = "JUMPTO"
           /\ gen.m_assembly[i].name = FunName[1]
           /\ gen.m_assembly[i + 1].i = "LABEL"
    /\ Last(gen.m_assembly) = Item("JUMP", 0, "")

\* C29: neither of the two checks of the model stack against the entry
\* layouts of the successors, which follow the conditional jump, fails:
\* when the condition is popped the model stack equals, slot by slot, the
\* entry layout of the nonZero successor and that of the zero successor.
C29_SuccessorLayoutsMatch ==
    gen.error \notin {"m_stack == entryLayout of nonZero", "m_stack == entryLayout of zero"}

\* the items of an assembly that jump to a block label
C30_BlockJumps(assembly) ==
    SelectSeq(assembly,
              LAMBDA item : item.i = "JUMPTOIF" \/ (item.i = "JUMPTO" /\ item.name = ""))

\* the number of times the label n is placed in an assembly
C30_Placed(assembly, n) ==
    Len(SelectSeq(assembly, LAMBDA item : item.i = "LABEL" /\ item.n = n))

\* C30: a block is staged only with a label, and labels are never taken
\* back; when CodeGenerator::run returns, the queue of staged blocks and
\* the queue of staged functions are empty, every block with a label, so
\* every block that was ever staged, is generated, and the label of every
\* jump and conditional jump to a block in the assembly is the label of a
\* block and is placed in the assembly exactly once.
C30_RunDrained ==
    /\ \A i \in 1..Len(gen.m_stagedBlocks) : hasLabel(gen.m_blockLabels, gen.m_stagedBlocks[i])
    /\ c_pc = "done" =>
           /\ gen.error = ""
           /\ gen.m_stagedBlocks = <<>>
           /\ gen.m_stagedFunctions = <<>>
           /\ \A i \in 1..Len(gen.m_blockLabels) : gen.m_blockLabels[i][1] \in gen.m_generated
           /\ \A i \in 1..Len(C30_BlockJumps(gen.m_assembly)) :
                  /\ \E j \in 1..Len(gen.m_blockLabels) :
                         gen.m_blockLabels[j][2] = C30_BlockJumps(gen.m_assembly)[i].n
                  /\ C30_Placed(gen.m_assembly, C30_BlockJumps(gen.m_assembly)[i].n) = 1

\* run has returned for a program with a conditional jump, a jump to a
\* staged block and a jump back to a generated block
C30_Witness ==
    /\ c_pc = "done"
    /\ \E i \in 1..Len(gen.m_assembly) : gen.m_assembly[i].i = "JUMPTOIF"
    /\ \E i, j \in 1..Len(gen.m_assembly) :
           /\ i < j
           /\ gen.m_assembly[i].i = "JUMPTO" /\ gen.m_assembly[i].name = ""
           /\ gen.m_assembly[j] = Item("LABEL", gen.m_assembly[i].n, "")
    /\ \E i, j \in 1..Len(gen.m_assembly) :
           /\ i < j
           /\ gen.m_assembly[j].i = "JUMPTO" /\ gen.m_assembly[j].name = ""
           /\ gen.m_assembly[i] = Item("LABEL", gen.m_assembly[j].n, "")

\* the number of times the label of the function name is placed
C31_Emitted(name) ==
    Len(SelectSeq(gen.m_assembly,
                  LAMBDA item : item = Item("LABEL", labelOf(gen.m_functionLabels, name), name)))

\* the functions whose label a call has requested
C31_Requested == {gen.m_functionLabels[i][1] : i \in 1..Len(gen.m_functionLabels)}

\* C31: when run returns, every function whose label a call requested is
\* emitted exactly once.  Whenever generateStaged is about to take a staged
\* function or to return, the root block and every block staged so far are
\* generated, the queue of blocks is empty and there is no current
\* function; a function is emitted at most once at any time.  A block that
\* exits with FunctionReturn is generated only while the current function
\* is the function of the exit, and the assertions on the current function
\* never fail.
C31_FunctionsInTurn ==
    /\ \A name \in C31_Requested : C31_Emitted(name) <= 1
    /\ \A name \in C31_Requested : (C31_Emitted(name) = 1) = (name \in gen.m_generatedFunctions)
    /\ c_pc = "done" => \A name \in C31_Requested : C31_Emitted(name) = 1
    /\ c_pc \in {"functions", "done"} =>
           /\ gen.m_currentFunctionInfo = NoFunction
           /\ gen.m_stagedBlocks = <<>>
           /\ dfg.entry \in gen.m_generated
           /\ \A i \in 1..Len(gen.m_blockLabels) : gen.m_blockLabels[i][1] \in gen.m_generated
    /\ c_pc \in {"function", "functionBlocks"} => gen.m_currentFunctionInfo = c_function
    /\ (c_pc = "block" /\ c_block \notin gen.m_generated
          /\ dfg.blocks[c_block].exit.t = "FunctionReturn") =>
           /\ gen.m_currentFunctionInfo # NoFunction
           /\ gen.m_currentFunctionInfo = dfg.blocks[c_block].exit.info
    /\ gen.error \notin {"!m_currentFunctionInfo", "m_currentFunctionInfo == _functionReturn.info",
                         "m_functionLabels.count"}

\* run has returned for the program with two functions, both emitted, each
\* with blocks that were staged while the function was generated, one of
\* these with the FunctionReturn exit
C31_Witness ==
    /\ c_pc = "done"
    /\ source = E_branch(1) \o E_leave(2)
    /\ Cardinality(C31_Requested) = 2
    /\ \A name \in C31_Requested : C31_Emitted(name) = 1
    /\ Last(gen.m_assembly) = Item("JUMP", 0, "")

\* ---------------------------------------------------------------- C32
C32_IsMark(operation, l, k) ==
    /\ operation.kind = "BuiltinCall"
    /\ operation.functionName = "sstore"
    /\ operation.call.arguments = <<Literal(l), Literal(k)>>

C32_Ends(blocks, b, l, k) ==
    /\ blocks[b].operations # <<>>
    /\ C32_IsMark(Last(blocks[b].operations), l, k)

C32_Starts(blocks, b, l, k) ==
    /\ blocks[b].operations # <<>>
    /\ C32_IsMark(Head(blocks[b].operations), l, k)

C32_JumpsTo(blocks, b, l, k) ==
    /\ blocks[b].exit.t = "Jump"
    /\ ~blocks[b].exit.backwards
    /\ C32_Starts(blocks, blocks[b].exit.target, l, k)

C32_Leaves(blocks, b, l) ==
    /\ blocks[b].exit.t = "Jump"
    /\ blocks[blocks[b].exit.target].exit.t = "FunctionReturn"
    /\ blocks[blocks[b].exit.target].exit.info = FunName[l]

C32_Fresh(blocks, b) ==
    /\ blocks[b].entries = <<>>
    /\ \A other \in DOMAIN blocks : b \notin successors(blocks[other].exit)

C32_Lowered(blocks) ==
    \A b \in DOMAIN blocks : \A l \in 1..3 :
        /\ \A o \in {0, 10} :
              /\ C32_Ends(blocks, b, l, o + 1) => C32_JumpsTo(blocks, b, l, 6)
              /\ C32_Ends(blocks, b, l, o + 3) => C32_JumpsTo(blocks, b, l, 5)
              /\ C32_Starts(blocks, b, l, o + 2) => C32_Fresh(blocks, b)
              /\ C32_Starts(blocks, b, l, o + 4) => C32_Fresh(blocks, b)
        /\ C32_Ends(blocks, b, l, 7) => C32_Leaves(blocks, b, l)
        /\ C32_Starts(blocks, b, l, 8) => C32_Fresh(blocks, b)

\* the builder of a function body starts without loop info, whatever the
\* loop info of the builder that meets the definition
C32_FunctionsStartOutsideLoops ==
    \A function \in definitionsIn(source) : \A afterLoop, post \in DOMAIN bld.blocks :
        functionBuilder(setForLoopInfo(bld, ForLoopInfo(afterLoop, post)), function).m_forLoopInfo
            = NoForLoopInfo

\* C32: in loops nested in any way, the block that ends before a break jumps
\* to the afterLoop block and the block that ends before a continue jumps to
\* the post block of the innermost enclosing loop, also after an inner loop or
\* an inner function definition has been lowered; a function body starts
\* without loop info; what follows break, continue or leave is lowered into a
\* block without predecessors.
C32_LoopExits ==
    (b_pc \in {"visit", "built"} /\ b_rest = <<>>) =>
        /\ C32_Lowered(bld.blocks)
        /\ b_pc = "built" => C32_Lowered(dfg.blocks)
        /\ bld.m_forLoopInfo = NoForLoopInfo
        /\ C32_FunctionsStartOutsideLoops

C32_Marked(blocks, l, k) ==
    \E b \in DOMAIN blocks : C32_Ends(blocks, b, l, k) \/ C32_Starts(blocks, b, l, k)

\* a loop around a function with a loop: every break and continue of both
\* loops, before and after the inner construct, and the leave were lowered
C32_Witness ==
    /\ b_pc = "built"
    /\ source \in LoopPrograms
    /\ definitionsIn(source) # {}
    /\ \A l \in 1..2 : \A k \in {1, 2, 3, 4, 11, 12, 13, 14} : C32_Marked(dfg.blocks, l, k)
    /\ C32_Marked(dfg.blocks, 3, 7)
    /\ C32_Marked(dfg.blocks, 3, 8)

\* ---------------------------------------------------------------- C33
\* the switch statements of a program, those inside case bodies included
RECURSIVE C33_Switches(_)
C33_Switches(statements) ==
    IF statements = <<>> THEN {}
    ELSE LET statement == Head(statements)
         IN (IF statement.t = "Switch"
             THEN {statement} \cup UNION {C33_Switches(statement.cases[i].body) :
                                              i \in DOMAIN statement.cases}
             ELSE {})
            \cup C33_Switches(Tail(statements))

C33_Marker(switchCase) == IF switchCase.hasValue THEN switchCase.value + 41 ELSE 49

\* the switches whose scrutinee is a variable and whose bodies are marked
C33_MarkedSwitches ==
    {switch \in C33_Switches(source) :
        /\ switch.expression.t = "Identifier"
        /\ \A i \in DOMAIN switch.cases :
              /\ switch.cases[i].body # <<>>
              /\ Head(switch.cases[i].body)
                     = mark(switch.expression.name, C33_Marker(switch.cases[i]))}

C33_Values(switch) ==
    LET valued == SelectSeq(switch.cases, LAMBDA switchCase : switchCase.hasValue)
    IN [i \in DOMAIN valued |-> valued[i].value]

C33_HasDefault(switch) == \E i \in DOMAIN switch.cases : ~switch.cases[i].hasValue

\* operation i of block b is the assignment of the scrutinee s to ghost
C33_IsGhostAssignment(operation, s, ghost) ==
    /\ operation.kind = "Assignment"
    /\ operation.input = <<VariableSlot(s)>>
    /\ operation.output = <<VariableSlot(ghost)>>
    /\ ghost < 0

C33_Ghosts(blocks, s) ==
    {ghost \in {ghostVariable(id) : id \in 0..(bld.ghostVariables - 1)} :
        \E b \in DOMAIN blocks : \E i \in DOMAIN blocks[b].operations :
            C33_IsGhostAssignment(blocks[b].operations[i], s, ghost)}

\* block p ends with eq(value, ghost of s) and branches on its output
C33_Compares(blocks, p, s, value) ==
    /\ blocks[p].operations # <<>>
    /\ LET operation == Last(blocks[p].operations)
       IN /\ operation.kind = "BuiltinCall"
          /\ operation.functionName = "eq"
          /\ Len(operation.input) = 2
          /\ operation.input[1].k = "var"
          /\ operation.input[1].a \in C33_Ghosts(blocks, s)
          /\ operation.input[2] = LiteralSlot(value)
          /\ operation.call.arguments = <<Literal(value), Identifier(operation.input[1].a)>>
          /\ \E i \in DOMAIN bld.ghostCalls : bld.ghostCalls[i] = operation.call
          /\ operation.output = <<TemporarySlot(operation.call.id, 0)>>
          /\ blocks[p].exit.t = "ConditionalJump"
          /\ blocks[p].exit.condition = operation.output[1]

C33_Predecessors(blocks, b) == {p \in DOMAIN blocks : b \in successors(blocks[p].exit)}

\* b is entered from p alone
C33_OnlyFrom(blocks, b, p) ==
    /\ C33_Predecessors(blocks, b) = {p}
    /\ blocks[b].entries = <<p>>

\* the comparing block p is reached exactly when the comparisons with values
\* were all zero; the first comparison follows the ghost assignment
RECURSIVE C33_AllZero(_, _, _, _)
C33_AllZero(blocks, p, s, values) ==
    IF values = <<>>
    THEN /\ Len(blocks[p].operations) >= 2
         /\ \E ghost \in C33_Ghosts(blocks, s) :
               C33_IsGhostAssignment(blocks[p].operations[Len(blocks[p].operations) - 1], s, ghost)
    ELSE /\ Len(blocks[p].operations) = 1
         /\ \E q \in DOMAIN blocks :
               /\ C33_OnlyFrom(blocks, p, q)
               /\ C33_Compares(blocks, q, s, Last(values))
               /\ blocks[q].exit.zero = p
               /\ blocks[q].exit.nonZero # p
               /\ C33_AllZero(blocks, q, s, Front(values))

C33_After(blocks, s) == {b \in DOMAIN blocks : C32_Starts(blocks, b, s, 50)}

\* the body of the i-th valued case
C33_ValuedCase(blocks, s, values, i) ==
    \E b, p \in DOMAIN blocks :
        /\ \A other \in DOMAIN blocks : C32_Starts(blocks, other, s, values[i] + 41) = (other = b)
        /\ C33_OnlyFrom(blocks, b, p)
        /\ C33_Compares(blocks, p, s, values[i])
        /\ blocks[p].exit.nonZero = b
        /\ blocks[p].exit.zero # b
        /\ C33_AllZero(blocks, p, s, SubSeq(values, 1, i - 1))

\* the default body: inline after the ghost assignment when it is the only
\* case, the zero successor of the last comparison otherwise
C33_DefaultCase(blocks, s, values) ==
    \E b \in DOMAIN blocks :
        /\ \A other \in DOMAIN blocks :
              (\E i \in DOMAIN blocks[other].operations :
                   C32_IsMark(blocks[other].operations[i], s, 49)) = (other = b)
        /\ IF values = <<>>
           THEN \E i \in DOMAIN blocks[b].operations : \E ghost \in C33_Ghosts(blocks, s) :
                   /\ i > 1
                   /\ C33_IsGhostAssignment(blocks[b].operations[i - 1], s, ghost)
                   /\ C32_IsMark(blocks[b].operations[i], s, 49)
           ELSE \E p \in DOMAIN blocks :
                   /\ C32_Starts(blocks, b, s, 49)
                   /\ C33_OnlyFrom(blocks, b, p)
                   /\ C33_Compares(blocks, p, s, Last(values))
                   /\ blocks[p].exit.zero = b
                   /\ blocks[p].exit.nonZero # b
                   /\ C33_AllZero(blocks, p, s, Front(values))

\* without a default the last comparison falls to afterSwitch when zero
C33_FallsThrough(blocks, s, values) ==
    \E p \in DOMAIN blocks :
        /\ C33_Compares(blocks, p, s, Last(values))
        /\ blocks[p].exit.zero \in C33_After(blocks, s)
        /\ C33_AllZero(blocks, p, s, Front(values))

\* the block that ends a body jumps forward to afterSwitch
C33_BodiesJoin(blocks, s, switch) ==
    \A i \in DOMAIN switch.cases :
        \E b \in DOMAIN blocks :
            /\ C32_Ends(blocks, b, s, C33_Marker(switch.cases[i]) + 20)
            /\ blocks[b].exit.t = "Jump"
            /\ ~blocks[b].exit.backwards
            /\ blocks[b].exit.target \in C33_After(blocks, s)

C33_Lowered(blocks, switch) ==
    LET s == switch.expression.name
        values == C33_Values(switch)
    IN /\ Cardinality(C33_Ghosts(blocks, s)) = 1
       /\ Cardinality(C33_After(blocks, s)) = 1
       /\ \A i \in DOMAIN values : C33_ValuedCase(blocks, s, values, i)
       /\ C33_HasDefault(switch) => C33_DefaultCase(blocks, s, values)
       /\ ~C33_HasDefault(switch) => C33_FallsThrough(blocks, s, values)
       /\ C33_BodiesJoin(blocks, s, switch)

\* C33: when a switch is lowered, the body of a case with a literal is entered
\* only as the nonZero successor of the conditional jump on the output of
\* eq(literal, ghost), where ghost was assigned the scrutinee, and only after
\* all earlier comparisons were zero; the default body is entered only when
\* every comparison was zero; without a default the last comparison goes to
\* afterSwitch when zero; every body ends with a forward jump to the one
\* afterSwitch block.
C33_SwitchLowering ==
    (b_pc \in {"visit", "built"} /\ b_rest = <<>>) =>
        \A switch \in C33_MarkedSwitches :
            /\ C33_Lowered(bld.blocks, switch)
            /\ b_pc = "built" => C33_Lowered(dfg.blocks, switch)

\* a switch with three literals and a default inside the first body of a
\* switch whose last case has a literal
C33_Witness ==
    /\ b_pc = "built"
    /\ Cardinality(C33_MarkedSwitches) = 2
    /\ \E outer, inner \in C33_MarkedSwitches :
          /\ outer.expression.name = 1
          /\ inner.expression.name = 2
          /\ inner \in C33_Switches(outer.cases[1].body)
          /\ ~C33_HasDefault(outer)
          /\ Len(C33_Values(outer)) = 2
          /\ C33_HasDefault(inner)
          /\ Len(C33_Values(inner)) = 3
          /\ C33_FallsThrough(dfg.blocks, 1, C33_Values(outer))
          /\ C33_DefaultCase(dfg.blocks, 2, C33_Values(inner))

\* ---------------------------------------------------------------- C34
C34_Terminates(operation) ==
    /\ operation.kind = "BuiltinCall"
    /\ Dialect[operation.functionName].terminates

\* the blocks that hold the call of a terminating builtin
C34_Halting(blocks) ==
    {b \in DOMAIN blocks : \E i \in DOMAIN blocks[b].operations :
        C34_Terminates(blocks[b].operations[i])}

\* the call is the last operation of its block, the block exits with
\* Terminated and has no successor
C34_Halts(blocks, b) ==
    /\ \A i \in DOMAIN blocks[b].operations :
          C34_Terminates(blocks[b].operations[i]) => i = Len(blocks[b].operations)
    /\ blocks[b].exit.t = "Terminated"
    /\ successors(blocks[b].exit) = {}

\* the blocks that hold the marker placed after a call of a terminating
\* builtin
C34_After(blocks) ==
    {b \in DOMAIN blocks : \E i \in DOMAIN blocks[b].operations : \E l \in 1..2 :
        C32_IsMark(blocks[b].operations[i], l, 30)}

\* the statement after the call opens a block without predecessors
C34_Follows(blocks, b) ==
    /\ \E l \in 1..2 : C32_Starts(blocks, b, l, 30)
    /\ C32_Fresh(blocks, b)

C34_Reachable == reachabilityCheck(bld)

\* the fresh block is neither reachable nor an entry of a reachable block
C34_Pruned(b) ==
    /\ b \notin C34_Reachable
    /\ \A r \in C34_Reachable : \A i \in DOMAIN dfg.blocks[r].entries :
          dfg.blocks[r].entries[i] # b

\* C34: the block of an expression statement that calls a terminating builtin
\* exits with Terminated and has no successor; the statements after it are
\* lowered into a fresh block that has no entries and is no successor of any
\* block; in the pruned graph that block is in the entries of no reachable
\* block.
C34_TerminatedBlocks ==
    (b_pc \in {"visit", "built"} /\ b_rest = <<>>) =>
        /\ \A b \in C34_Halting(bld.blocks) : C34_Halts(bld.blocks, b)
        /\ \A b \in DOMAIN bld.blocks :
              bld.blocks[b].exit.t = "Terminated" => b \in C34_Halting(bld.blocks)
        /\ \A b \in C34_After(bld.blocks) : C34_Follows(bld.blocks, b)
        /\ b_pc = "built" =>
              /\ \A b \in C34_Halting(dfg.blocks) : C34_Halts(dfg.blocks, b)
              /\ \A b \in C34_After(dfg.blocks) : C34_Follows(dfg.blocks, b) /\ C34_Pruned(b)

\* before pruning the fresh block after a halt was an entry of a reachable
\* block (the block after the if around the halt); the pruned graph has
\* dropped it
C34_Witness ==
    /\ b_pc = "built"
    /\ \E b \in C34_After(dfg.blocks) : \E r \in C34_Reachable :
          /\ C32_Starts(dfg.blocks, r, 1, 31)
          /\ \E i \in DOMAIN bld.blocks[r].entries : bld.blocks[r].entries[i] = b
          /\ \A i \in DOMAIN dfg.blocks[r].entries : dfg.blocks[r].entries[i] # b

\* ---------------------------------------------------------------- C35
\* operationEntryLayout[op] without its top |op.input| slots
C35_Below == SubSeq(p_entry, 1, Len(p_entry) - Len(p_op.input))

C35_Live(slot) == slot \notin Range(p_op.output) /\ slot \notin Range(p_op.variables)

\* C35: back-propagation through an operation loses no live slot: whatever
\* the exit stack, and wherever and however often the outputs of the
\* operation stand in it, the call records an entry layout, and every slot of
\* the exit stack that is neither an output of the operation nor a variable
\* it assigns stands in that layout below the input of the operation.
C35_NoLiveSlotLost ==
    /\ p_pc # "assertFailed"
    /\ p_pc = "returned" =>
          /\ Len(p_entry) >= Len(p_op.input)
          /\ \A i \in DOMAIN p_exit : C35_Live(p_exit[i]) => p_exit[i] \in Range(C35_Below)

\* the output of a builtin call stands twice in the exit stack, at the bottom
\* and under another variable, with two live variables around it
C35_Witness ==
    /\ p_pc = "returned"
    /\ p_op.kind = "BuiltinCall"
    /\ p_op.output = <<TemporarySlot(701, 0)>>
    /\ p_exit = <<TemporarySlot(701, 0), VariableSlot(3), TemporarySlot(701, 0), VariableSlot(2)>>
    /\ Range(C35_Below) = {VariableSlot(3), VariableSlot(2)}

\* ---------------------------------------------------------------- C36
C36_InputOnTop(entry, operation) ==
    /\ Len(entry) >= Len(operation.input)
    /\ TakeLast(entry, Len(operation.input)) = operation.input

\* the entry layouts recorded for block b, one per operation
C36_Block(b) ==
    /\ Len(m_layout[b].operationEntryLayout) = Len(dfg.blocks[b].operations)
    /\ \A i \in DOMAIN dfg.blocks[b].operations :
          C36_InputOnTop(m_layout[b].operationEntryLayout[i], dfg.blocks[b].operations[i])

\* an insertion of fixStackTooDeep into a recorded layout, whatever slots of
\* the block it carries
C36_Insertions(b) ==
    \A i \in DOMAIN m_layout[b].operationEntryLayout :
        \A unreachable \in SeqsUpTo(Range(m_layout[b].exitLayout), 2) :
            C36_InputOnTop(insertUnreachable(m_layout[b].operationEntryLayout[i],
                                             dfg.blocks[b].operations[i], unreachable),
                           dfg.blocks[b].operations[i])

\* C36: in every state of the layout pipeline (after a block was processed
\* for the first time or again for a back-edge, after stitching and after
\* fixStackTooDeep) the entry layout of every operation of a block that has
\* layouts ends with the input of the operation, in order; an insertion of
\* fixStackTooDeep keeps it so.
C36_EntryEndsWithInput ==
    l_pc \in {"process", "stitch", "fix", "done"} =>
        \A b \in DOMAIN m_layout : m_layout[b].has => C36_Block(b) /\ C36_Insertions(b)

\* fixStackTooDeep has inserted the variable x1 under the input of the first
\* operation of the entry block, whose entry layout is empty
C36_Witness ==
    /\ l_pc = "done"
    /\ m_layout[dfg.entry].has
    /\ m_layout[dfg.entry].entryLayout = <<>>
    /\ dfg.blocks[dfg.entry].operations # <<>>
    /\ LET operation == dfg.blocks[dfg.entry].operations[1]
           entry == m_layout[dfg.entry].operationEntryLayout[1]
       IN /\ operation.input # <<>>
          /\ entry = <<VariableSlot(1)>> \o operation.input

\* ---------------------------------------------------------------- C37
C37_Reachable(root) == reachableFrom(dfg.blocks, {}, {root})

C37_BackEdges(root) ==
    {B \in C37_Reachable(root) : dfg.blocks[B].exit.t = "Jump" /\ dfg.blocks[B].exit.backwards}

\* the exit layout of B provides every slot the entry layout of H holds
C37_Provided(B, H) ==
    \A i \in DOMAIN m_layout[H].entryLayout :
        findOffset(m_layout[B].exitLayout, m_layout[H].entryLayout[i]) >= 0

C37_Settled(root) ==
    /\ \A b \in C37_Reachable(root) : m_layout[b].has
    /\ \A B \in C37_BackEdges(root) : C37_Provided(B, dfg.blocks[B].exit.target)

\* the outermost activation for the entry point at the head of l_roots has
\* emptied toVisit and checked its back-edges: it returns
C37_Returning ==
    /\ l_pc = "process"
    /\ Len(l_frames) = 1
    /\ Head(l_frames).toVisit = <<>>
    /\ Head(l_frames).checked = Len(Head(l_frames).backwardsJumps)

\* every entry point is processed and none is stitched yet
C37_AllReturned == l_pc = "stitch" /\ l_roots = entryPoints(dfg)

\* C37: when the outermost call of processEntryPoint for an entry point
\* returns, every block reachable from the entry point has a block info and,
\* for every reachable block B that jumps backwards to H, every slot of the
\* entry layout of H occurs in the exit layout of B; the same for all entry
\* points when run starts to stitch.
C37_BackEdgesSettled ==
    /\ C37_Returning => C37_Settled(Head(l_roots))
    /\ C37_AllReturned => \A i \in DOMAIN l_roots : C37_Settled(l_roots[i])

\* two back-edges with different targets, both of which need slots
C37_Witness ==
    /\ C37_Returning
    /\ \E B1, B2 \in C37_BackEdges(Head(l_roots)) :
          /\ dfg.blocks[B1].exit.target # dfg.blocks[B2].exit.target
          /\ m_layout[dfg.blocks[B1].exit.target].entryLayout # <<>>
          /\ m_layout[dfg.blocks[B2].exit.target].entryLayout # <<>>
          /\ B1 \in reachableFrom(dfg.blocks, {}, {dfg.blocks[B2].exit.target})

\* ---------------------------------------------------------------- C38
\* the longest common prefix of the model stack and the target at the call
C38_Prefix == commonPrefix(t_stack, t_target)

\* what an item adds to the height of the stack
C38_Grows(item) ==
    CASE item.i \in {"DUP", "PUSH", "PUSHLABEL", "CALLDATASIZE"} -> 1
      [] item.i = "POP" -> -1
      [] OTHER -> 0

\* the height of the stack before item k of the assembly runs
RECURSIVE C38_HeightBefore(_)
C38_HeightBefore(k) ==
    IF k = 1 THEN Len(t_stack)
    ELSE C38_HeightBefore(k - 1) + C38_Grows(gen.m_assembly[k - 1])

\* item k neither exchanges nor removes a slot of the prefix
C38_SparesPrefix(k) ==
    /\ gen.m_assembly[k].i = "SWAP" =>
          C38_HeightBefore(k) - gen.m_assembly[k].n > Len(C38_Prefix)
    /\ gen.m_assembly[k].i = "POP" => C38_HeightBefore(k) > Len(C38_Prefix)

\* item k copies a slot of the prefix
C38_ReadsPrefix(k) ==
    /\ gen.m_assembly[k].i = "DUP"
    /\ C38_HeightBefore(k) - gen.m_assembly[k].n + 1 <= Len(C38_Prefix)

\* C38: a call of CodeGenerator::createStackLayout leaves the longest common
\* prefix of the model stack and the target alone: no SWAP it appends
\* exchanges a slot of the prefix, no POP removes one, and when it returns
\* the model stack is the target and starts with the prefix, as high as the
\* appended instructions leave the stack.
C38_PrefixUntouched ==
    t_pc \in {"returned", "failed"} =>
        /\ \A k \in DOMAIN gen.m_assembly : C38_SparesPrefix(k)
        /\ t_pc = "returned" =>
              /\ Len(gen.m_stack) >= Len(C38_Prefix)
              /\ Take(gen.m_stack, Len(C38_Prefix)) = C38_Prefix
              /\ gen.m_stack = t_target
              /\ Len(gen.m_stack) = C38_HeightBefore(Len(gen.m_assembly) + 1)

\* with a prefix of one slot, the call popped and swapped above the prefix
\* and copied the slot of the prefix
C38_Witness ==
    /\ t_pc = "returned"
    /\ Len(C38_Prefix) = 1
    /\ Len(t_stack) = 3
    /\ \E k \in DOMAIN gen.m_assembly : gen.m_assembly[k].i = "POP"
    /\ \E k \in DOMAIN gen.m_assembly : gen.m_assembly[k].i = "SWAP"
    /\ \E k \in DOMAIN gen.m_assembly : C38_ReadsPrefix(k)

C39_IsCallOperation(o) == o.kind \in {"BuiltinCall", "FunctionCall"}

\* the positions in a block at which the operation of a call stands
C39_Where(ops, c) == {k \in DOMAIN ops : C39_IsCallOperation(ops[k]) /\ ops[k].call = c}

\* the arguments of a call that are calls, in source order
C39_CallArguments(c) == SelectSeq(c.arguments, LAMBDA e : e.t = "FunctionCall")

\* every argument call of the call at position k has its one operation
\* earlier in the block, a later source argument before an earlier one
C39_ArgumentsFirst(ops, k) ==
    LET args == C39_CallArguments(ops[k].call)
    IN /\ \A i \in DOMAIN args :
            /\ Cardinality(C39_Where(ops, args[i])) = 1
            /\ \A p \in C39_Where(ops, args[i]) : p < k
       /\ \A i, j \in DOMAIN args :
            i < j => \A p \in C39_Where(ops, args[i]), q \in C39_Where(ops, args[j]) : q < p

\* an Assignment at position k whose input is the output of a call stands
\* right after the operation of that call
C39_ConsumesPrevious(ops, k) ==
    (ops[k].input # <<>> /\ ops[k].input[1].k = "tmp") =>
        /\ k > 1
        /\ C39_IsCallOperation(ops[k - 1])
        /\ ops[k - 1].call.id = ops[k].input[1].a
        /\ ops[k - 1].output = ops[k].input

C39_Ordered(blocks) ==
    \A b \in DOMAIN blocks :
        \A k \in DOMAIN blocks[b].operations :
            IF C39_IsCallOperation(blocks[b].operations[k])
            THEN C39_ArgumentsFirst(blocks[b].operations, k)
            ELSE C39_ConsumesPrevious(blocks[b].operations, k)

\* the statements of the program lowered so far that declare or assign the
\* outputs of a call
C39_Lowered == SubSeq(source, 1, Len(source) - Len(b_rest))
C39_ValuesOfCalls ==
    {C39_Lowered[i] : i \in {j \in DOMAIN C39_Lowered :
        /\ C39_Lowered[j].t \in {"VariableDeclaration", "Assignment"}
        /\ C39_Lowered[j].value.t = "FunctionCall"
        /\ (C39_Lowered[j].t = "VariableDeclaration" => C39_Lowered[j].hasValue)}}

C39_Targets(statement) ==
    IF statement.t = "Assignment" THEN statement.variableNames ELSE statement.variables

\* the call of the statement and the Assignment to its variables are
\* neighbours in some block
C39_Consumed(blocks, statement) ==
    \E b \in DOMAIN blocks : \E k \in DOMAIN blocks[b].operations :
        /\ k > 1
        /\ blocks[b].operations[k].kind = "Assignment"
        /\ blocks[b].operations[k].output = variableSlots(C39_Targets(statement))
        /\ C39_IsCallOperation(blocks[b].operations[k - 1])
        /\ blocks[b].operations[k - 1].call = statement.value
        /\ blocks[b].operations[k].input = blocks[b].operations[k - 1].output

\* the operations a block had are the first operations it has afterwards
C39_OnlyAppended ==
    \A b \in DOMAIN bld.blocks :
        /\ b \in DOMAIN bld'.blocks
        /\ Len(bld.blocks[b].operations) <= Len(bld'.blocks[b].operations)
        /\ SubSeq(bld'.blocks[b].operations, 1, Len(bld.blocks[b].operations))
               = bld.blocks[b].operations

C39_InOrder ==
    /\ C39_Ordered(bld.blocks)
    /\ \A statement \in C39_ValuesOfCalls : C39_Consumed(bld.blocks, statement)
    /\ b_pc = "built" => dfg.blocks = [b \in DOMAIN bld.blocks |->
                              [bld.blocks[b] EXCEPT !.entries = dfg.blocks[b].entries]]

\* C39: operations are appended in evaluation order.  Lowering a statement
\* only appends to the blocks; in every block the operations of the
\* arguments of a call that are calls stand before the operation of the
\* call, the one of the last source argument first and the one of the first
\* source argument last; and the operation of the call on the right-hand
\* side of a declaration or assignment stands immediately before the
\* Assignment operation whose input is its output.
C39_EvaluationOrder == [][(~bld'.failed) => (C39_OnlyAppended /\ C39_InOrder')]_vars

\* A call of two arguments that are calls, the first of them with two
\* argument calls of its own, was lowered and its output assigned.
C39_Witness ==
    /\ b_pc = "built"
    /\ \E b \in DOMAIN dfg.blocks : \E k \in DOMAIN dfg.blocks[b].operations :
        LET ops == dfg.blocks[b].operations
        IN /\ ops[k].kind = "Assignment"
           /\ k > 5
           /\ ops[k - 1].kind = "FunctionCall"
           /\ Len(C39_CallArguments(ops[k - 1].call)) = 2
           /\ Len(C39_CallArguments(ops[k - 1].call.arguments[1])) = 2
           /\ ops[k - 2].call = ops[k - 1].call.arguments[1]
           /\ ops[k - 5].call = ops[k - 1].call.arguments[2]
====
